---- MODULE Spec2Model ----
(***************************************************************************)
(* A model of the encrypted entry storage of the personal diary:           *)
(* diary/crypto.py (CryptoManager), diary/storage.py (EntryStorage),       *)
(* diary/auth.py (AuthManager) and the start-up sequence of diary_app.py   *)
(* (DiaryApplication.__init__) with ui/main_window.py (MainWindow).        *)
(*                                                                         *)
(* Text is a sequence of one-character strings, so that split, replace     *)
(* and strip are computed as Python computes them.  A key file holds a     *)
(* record: its length in bytes, whether Fernet accepts it, and the key's   *)
(* identity.  A Fernet token is the pair of the key that made it and the   *)
(* plaintext: decryption succeeds exactly under that key.                  *)
(***************************************************************************)
EXTENDS Integers, Sequences, FiniteSets, TLC

VARIABLES
    env,        \* how the process runs: decides CryptoManager._resolve_path
    keyFiles,   \* the key files on disk, by <<directory, name>>
    dataFiles,  \* the entry log on disk, by directory
    backups,    \* the .diary_data.backup_<timestamp> files written so far
    proc,       \* the running process: its CryptoManager / EntryStorage paths
    nextKeyId,  \* the next key Fernet.generate_key() draws
    last,       \* the last call: operation, arguments, result, state before it
    hist,       \* history: what the calls so far should have left behind
    passwordFiles,  \* the password files on disk, by <<directory, name>>
    legacy,     \* diary_entries.txt and diary_entries.txt.bak of the working directory
    app,        \* where the run stands between start-up and the session
    tokens,     \* the tokens encrypt returned so far, each with its plaintext
    modes,      \* the platform, and the permission bits of the secret-bearing files
    deleting    \* a delete between its read_entries and its rewrite_entries

appVars == <<passwordFiles, legacy, app, tokens, modes, deleting>>

vars == <<env, keyFiles, dataFiles, backups, proc, nextKeyId, last, hist,
          passwordFiles, legacy, app, tokens, modes, deleting>>

(***************************************************************************)
(* Bounds of the model.                                                    *)
(***************************************************************************)
MaxStrLen == 2      \* length of the generated date strings
MaxLog == 2         \* lines the entry log may grow to
MaxKeys == 5        \* the last key generate_key may draw in one behaviour
MaxRuns == 2        \* process starts in one behaviour

(***************************************************************************)
(* Text.                                                                   *)
(***************************************************************************)
Whitespace == {" ", "\n", "\t"}

\* str.strip() == "": every character is whitespace (storage.py:113)
IsBlank(s) == \A i \in 1..Len(s) : s[i] \in Whitespace

\* the first index of character c in s, or 0
RECURSIVE IndexFrom(_, _, _)
IndexFrom(s, c, i) ==
    IF i > Len(s) THEN 0
    ELSE IF s[i] = c THEN i
    ELSE IndexFrom(s, c, i + 1)

\* s.split(c)[0]
SplitFirst(s, c) ==
    LET i == IndexFrom(s, c, 1)
    IN  IF i = 0 THEN s ELSE SubSeq(s, 1, i - 1)

\* c.join(s.split(c)[1:]): what follows the first c, empty when there is none
AfterFirst(s, c) ==
    LET i == IndexFrom(s, c, 1)
    IN  IF i = 0 THEN <<>> ELSE SubSeq(s, i + 1, Len(s))

\* s.split(c)[1], empty when there is no second part
SecondPart(s, c) == SplitFirst(AfterFirst(s, c), c)

StartsWithAt(s, pat, i) ==
    /\ i + Len(pat) - 1 <= Len(s)
    /\ \A j \in 1..Len(pat) : s[i + j - 1] = pat[j]

\* s.replace(pat, ""): the non-overlapping occurrences, left to right
RECURSIVE RemoveAllFrom(_, _, _)
RemoveAllFrom(s, pat, i) ==
    IF i > Len(s) THEN <<>>
    ELSE IF StartsWithAt(s, pat, i) THEN RemoveAllFrom(s, pat, i + Len(pat))
    ELSE <<s[i]>> \o RemoveAllFrom(s, pat, i + 1)

RemoveAll(s, pat) == RemoveAllFrom(s, pat, 1)

RECURSIVE LStrip(_)
LStrip(s) ==
    IF s # <<>> /\ Head(s) \in Whitespace THEN LStrip(Tail(s)) ELSE s

RECURSIVE RStrip(_)
RStrip(s) ==
    IF s # <<>> /\ s[Len(s)] \in Whitespace
    THEN RStrip(SubSeq(s, 1, Len(s) - 1))
    ELSE s

\* str.strip()
Strip(s) == RStrip(LStrip(s))

EndsWith(s, pat) ==
    Len(pat) <= Len(s) /\ StartsWithAt(s, pat, Len(s) - Len(pat) + 1)

\* every sequence over alphabet A of length at most n
RECURSIVE StrUpTo(_, _)
StrUpTo(A, n) ==
    IF n = 0 THEN {<<>>}
    ELSE LET shorter == StrUpTo(A, n - 1)
         IN  shorter \cup {Append(s, c) : s \in shorter, c \in A}

(***************************************************************************)
(* The entry record format (storage.py:121-122).                           *)
(***************************************************************************)
HeaderPrefix == <<"-", "-", "-", " ", "E", "n", "t", "r", "y", " ", "o", "n", " ">>
MoodPrefix == <<" ", "M", "o", "o", "d", ":", " ">>
HeaderSuffix == <<" ", "-", "-", "-">>

\* datetime.datetime.now().strftime("%B %d, %Y") at the time of the call
Today == <<"J", "u", "n", "e", " ", "0", "1">>

\* date = date or now()
EffectiveDate(date) == IF date = <<>> THEN Today ELSE date

\* f"--- Entry on {date} | Mood: {mood} ---\n{content}"
EntryWithMetadata(content, mood, date) ==
    HeaderPrefix \o EffectiveDate(date) \o <<" ", "|">> \o MoodPrefix \o mood
        \o HeaderSuffix \o <<"\n">> \o content

\* the date parsed without .replace("--- Entry on ", "")
ParseDateKeepsPrefix(entry) == Strip(SplitFirst(SplitFirst(entry, "\n"), "|"))

\* header_line.split("|")[0].replace("--- Entry on ", "").strip()
ParseDate(entry) ==
    Strip(RemoveAll(SplitFirst(SplitFirst(entry, "\n"), "|"), HeaderPrefix))

\* "\n".join(entry.split("\n")[1:])
ParseBody(entry) == AfterFirst(entry, "\n")

\* the header's second '|' part, without " Mood: " before and " ---" after
ParseMood(entry) ==
    LET part == SecondPart(SplitFirst(entry, "\n"), "|")
        a == IF StartsWithAt(part, MoodPrefix, 1)
             THEN SubSeq(part, Len(MoodPrefix) + 1, Len(part)) ELSE part
    IN  IF EndsWith(a, HeaderSuffix)
        THEN SubSeq(a, 1, Len(a) - Len(HeaderSuffix)) ELSE a

(***************************************************************************)
(* Key files (crypto.py).                                                  *)
(***************************************************************************)
FernetKeyLen == 44
KeyName == ".key.key"
PreviousName == ".key.key.previous"

\* the names read_entries looks for, in its order (storage.py:158-163)
CandidateNames == <<"key.key", "key.key.bak", "key.key.backup", ".key.key.bak">>

Dirs == {"cwd", "home", "hidden", "res", "appsup", "appdata"}

CwdNames ==
    {KeyName, PreviousName} \cup {CandidateNames[i] : i \in 1..Len(CandidateNames)}

KeyPaths ==
    {<<"cwd", n>> : n \in CwdNames}
        \cup {<<d, n>> : d \in Dirs \ {"cwd"}, n \in {KeyName, PreviousName}}

\* what Fernet.generate_key() returns: 44 bytes that Fernet accepts
ValidKey(n) == [exists |-> TRUE, len |-> FernetKeyLen, fernet |-> TRUE, id |-> n]
\* 44 bytes that are no url-safe base64 of 32 bytes
Bad44Key == [exists |-> TRUE, len |-> FernetKeyLen, fernet |-> FALSE, id |-> 0]
\* a truncated key file
ShortKey == [exists |-> TRUE, len |-> FernetKeyLen - 1, fernet |-> FALSE, id |-> 0]
NoFile == [exists |-> FALSE, len |-> 0, fernet |-> FALSE, id |-> 0]

\* CryptoManager._is_valid_key
IsValidKey(key) ==
    IF key.len # FernetKeyLen THEN FALSE ELSE key.fernet

\* load_key's test of what it read: it raises ValueError when this holds
LoadKeyRejects(key) == key.len # FernetKeyLen /\ ~IsValidKey(key)

\* load_key falls into its except branch: the file cannot be opened, or the
\* test rejected its content
LoadKeyRegenerates(kf, path) == ~kf[path].exists \/ LoadKeyRejects(kf[path])

\* CryptoManager.generate_key: the key file after it
GenerateKey(kf, path, n) == [kf EXCEPT ![path] = ValidKey(n)]

\* CryptoManager.load_key: the key it returns, and the key files after it
LoadKey(kf, path, n) ==
    IF LoadKeyRegenerates(kf, path) THEN ValidKey(n) ELSE kf[path]

KeyFilesAfterLoad(kf, path, n) ==
    IF LoadKeyRegenerates(kf, path) THEN GenerateKey(kf, path, n) ELSE kf

KeyIdAfterLoad(kf, path, n) ==
    IF LoadKeyRegenerates(kf, path) THEN n + 1 ELSE n

\* Fernet(key) raises ValueError unless key is 32 url-safe base64-encoded bytes
FernetAccepts(key) == key.len = FernetKeyLen /\ key.fernet

\* fernet.encrypt(data.encode()).decode()
Token(key, plaintext) == [k |-> key.id, p |-> plaintext]

\* fernet.decrypt succeeds: the token was made under this key and is intact
Decrypts(key, tok) == FernetAccepts(key) /\ tok.k = key.id

\* a line of the log that no key decrypts
CorruptLine == [k |-> 0, p |-> <<>>]

(***************************************************************************)
(* CryptoManager._resolve_path for the default name ".key.key": the        *)
(* directory of the key path.  env "plain" is every run that reaches the   *)
(* standard checks: not frozen, or frozen on another platform, or on       *)
(* Windows without APPDATA.                                                *)
(***************************************************************************)
Envs == {"plain", "darwin_app", "darwin", "win32"}

ResolvePath(kf, e) ==
    IF e = "darwin_app" /\ kf[<<"res", KeyName>>].exists THEN "res"
    ELSE IF e \in {"darwin_app", "darwin"} THEN "appsup"
    ELSE IF e = "win32" THEN "appdata"
    ELSE IF kf[<<"cwd", KeyName>>].exists THEN "cwd"
    ELSE IF kf[<<"home", KeyName>>].exists THEN "home"
    ELSE IF kf[<<"hidden", KeyName>>].exists THEN "hidden"
    ELSE "cwd"

\* _ensure_key_exists generating whether or not the file is there
EnsureAlwaysGenerates(kf, path) == TRUE

\* CryptoManager._ensure_key_exists
EnsureGenerates(kf, path) == ~kf[path].exists

EnsureKeyExists(kf, path, n) ==
    IF EnsureGenerates(kf, path) THEN GenerateKey(kf, path, n) ELSE kf

(***************************************************************************)
(* EntryStorage (storage.py).  A handler is a function of the files it     *)
(* finds (c: key files, data files, backups, next generated key), of the   *)
(* directory of the key path and of what the user answers in its dialogs;  *)
(* it yields the files it leaves and what it returns.                      *)
(*                                                                         *)
(* Every encrypt and decrypt starts with load_key (crypto.py:160, 166).    *)
(* load_key writes the key file only when it regenerates, and what it      *)
(* writes it accepts afterwards: the first call of a handler decides the   *)
(* key of all its calls.                                                   *)
(***************************************************************************)
Files(kf, df, bk, n) == [kf |-> kf, df |-> df, bk |-> bk, n |-> n]

NoData == [exists |-> FALSE, lines |-> <<>>]

\* the files after the first load_key of a handler
AfterLoad(c, dir) ==
    [c EXCEPT !.kf = KeyFilesAfterLoad(c.kf, <<dir, KeyName>>, c.n),
              !.n = KeyIdAfterLoad(c.kf, <<dir, KeyName>>, c.n)]

Outcome(c, ret, entries, failures, events, restart) ==
    [c |-> c, ret |-> ret, entries |-> entries, failures |-> failures,
     events |-> events, restart |-> restart]

\* save_entry testing "not content" where the code tests "not content.strip()"
SaveEntryEmptyOnly(c, dir, content, mood, date) ==
    IF content = <<>> THEN Outcome(c, "False", <<>>, 0, <<>>, FALSE)
    ELSE LET key == LoadKey(c.kf, <<dir, KeyName>>, c.n)
             c1 == AfterLoad(c, dir)
             line == Token(key, EntryWithMetadata(content, mood, date))
         IN  IF ~FernetAccepts(key)
             THEN Outcome(c1, "StorageError", <<>>, 0, <<>>, FALSE)
             ELSE Outcome(
                    [c1 EXCEPT !.df[dir] =
                        [exists |-> TRUE, lines |-> Append(c.df[dir].lines, line)]],
                    "True", <<>>, 0, <<>>, FALSE)

\* EntryStorage.save_entry
SaveEntry(c, dir, content, mood, date) ==
    IF IsBlank(content) THEN Outcome(c, "False", <<>>, 0, <<>>, FALSE)
    ELSE LET key == LoadKey(c.kf, <<dir, KeyName>>, c.n)
             c1 == AfterLoad(c, dir)
             line == Token(key, EntryWithMetadata(content, mood, date))
         IN  IF ~FernetAccepts(key)
             THEN Outcome(c1, "StorageError", <<>>, 0, <<>>, FALSE)
             ELSE Outcome(
                    [c1 EXCEPT !.df[dir] =
                        [exists |-> TRUE, lines |-> Append(c.df[dir].lines, line)]],
                    "True", <<>>, 0, <<>>, FALSE)

\* _can_decrypt_any returning False at the first line that fails
CanDecryptAll(key, lines) == \A i \in 1..Len(lines) : Decrypts(key, lines[i])

\* _can_decrypt_any trying the first line only
CanDecryptFirst(key, lines) == lines # <<>> /\ Decrypts(key, lines[1])

\* EntryStorage._can_decrypt_any
CanDecryptAny(key, lines) == \E i \in 1..Len(lines) : Decrypts(key, lines[i])

\* the loop of read_entries (storage.py:198-209): what it appends to entries
RECURSIVE DecryptAll(_, _)
DecryptAll(key, lines) ==
    IF lines = <<>> THEN <<>>
    ELSE (IF Decrypts(key, Head(lines)) THEN <<Head(lines).p>> ELSE <<>>)
            \o DecryptAll(key, Tail(lines))

\* ... and its decryption_failures
DecryptionFailures(key, lines) ==
    Cardinality({i \in 1..Len(lines) : ~Decrypts(key, lines[i])})

\* the key_options read_entries collects (storage.py:155-165)
RECURSIVE ExistingNames(_, _)
ExistingNames(kf, names) ==
    IF names = <<>> THEN <<>>
    ELSE (IF kf[<<"cwd", Head(names)>>].exists THEN <<Head(names)>> ELSE <<>>)
            \o ExistingNames(kf, Tail(names))

KeyOptions(kf) == ExistingNames(kf, CandidateNames)

\* storage.py:170-175: back up ".key.key", copy the selected key over it
SwapKey(kf, selected) ==
    LET kf1 == IF kf[<<"cwd", KeyName>>].exists
               THEN [kf EXCEPT ![<<"cwd", PreviousName>>] = kf[<<"cwd", KeyName>>]]
               ELSE kf
    IN  [kf1 EXCEPT ![<<"cwd", KeyName>>] = kf1[<<"cwd", selected>>]]

\* EntryStorage._backup_encrypted_entries
BackupEncryptedEntries(c, dir) ==
    IF c.df[dir].exists THEN [c EXCEPT !.bk = c.bk \cup {c.df[dir].lines}] ELSE c

\* the warning read_entries shows after its loop (storage.py:211-228)
Warning(failures, nlines) ==
    IF failures > 0 /\ failures = nlines THEN <<"warn_all_failed">>
    ELSE IF failures > 0 THEN <<"warn_partial">>
    ELSE <<>>

\* EntryStorage.read_entries.  sel: the index the user selects in the key
\* recovery dialog, 0 to cancel; yes: the answer to the backup offer
ReadEntries(c, dir, sel, yes) ==
    LET f == c.df[dir]
        key == LoadKey(c.kf, <<dir, KeyName>>, c.n)
        c1 == AfterLoad(c, dir)
        options == KeyOptions(c1.kf)
        failures == DecryptionFailures(key, f.lines)
        report == Warning(failures, Len(f.lines)) \o <<"return">>
    IN  IF ~f.exists \/ f.lines = <<>>
        THEN Outcome(c, "entries", <<>>, 0, <<"return">>, FALSE)
        ELSE IF CanDecryptAny(key, f.lines)
        THEN Outcome(c1, "entries", DecryptAll(key, f.lines), failures, report, FALSE)
        ELSE IF options # <<>> /\ sel \in 1..Len(options)
        THEN Outcome([c1 EXCEPT !.kf = SwapKey(c1.kf, options[sel])], "restart",
                     <<>>, 0,
                     <<"list_candidates", "select_key", "swap_key", "restart">>, TRUE)
        ELSE IF options # <<>>
        THEN Outcome(c1, "entries", DecryptAll(key, f.lines), failures,
                     <<"list_candidates", "select_key">> \o report, FALSE)
        ELSE IF yes
        THEN Outcome(BackupEncryptedEntries(c1, dir), "entries",
                     DecryptAll(key, f.lines), failures,
                     <<"list_candidates", "offer_backup", "backup">> \o report, FALSE)
        ELSE Outcome(c1, "entries", DecryptAll(key, f.lines), failures,
                     <<"list_candidates", "offer_backup">> \o report, FALSE)

\* EntryStorage.rewrite_entries: open(data_file, "w") truncates, then every
\* entry is encrypted and written; encrypt raising leaves the file as it is then
RewriteEntries(c, dir, entries) ==
    LET key == LoadKey(c.kf, <<dir, KeyName>>, c.n)
        c1 == AfterLoad(c, dir)
        truncated == [exists |-> TRUE, lines |-> <<>>]
    IN  IF entries = <<>>
        THEN Outcome([c EXCEPT !.df[dir] = truncated], "True", <<>>, 0, <<>>, FALSE)
        ELSE IF ~FernetAccepts(key)
        THEN Outcome([c1 EXCEPT !.df[dir] = truncated], "StorageError",
                     <<>>, 0, <<>>, FALSE)
        ELSE Outcome(
               [c1 EXCEPT !.df[dir] =
                   [exists |-> TRUE,
                    lines |-> [i \in 1..Len(entries) |-> Token(key, entries[i])]]],
               "True", <<>>, 0, <<>>, FALSE)

\* entries.remove(entry_to_delete): the first match only
RECURSIVE WithoutFirstMatch(_, _)
WithoutFirstMatch(entries, target) ==
    IF entries = <<>> THEN <<>>
    ELSE IF Head(entries) = target THEN Tail(entries)
    ELSE <<Head(entries)>> \o WithoutFirstMatch(Tail(entries), target)

\* [entry for entry in entries if entry != entry_to_delete]
RECURSIVE WithoutEntry(_, _)
WithoutEntry(entries, target) ==
    IF entries = <<>> THEN <<>>
    ELSE (IF Head(entries) # target THEN <<Head(entries)>> ELSE <<>>)
            \o WithoutEntry(Tail(entries), target)

\* the filter of delete_entries_by_date comparing the date before .strip()
RECURSIVE WithoutUnstrippedDate(_, _)
WithoutUnstrippedDate(entries, date) ==
    IF entries = <<>> THEN <<>>
    ELSE (IF RemoveAll(SplitFirst(SplitFirst(Head(entries), "\n"), "|"), HeaderPrefix)
                # date
          THEN <<Head(entries)>> ELSE <<>>)
            \o WithoutUnstrippedDate(Tail(entries), date)

\* the filter of delete_entries_by_date (storage.py:358-368)
RECURSIVE WithoutDate(_, _)
WithoutDate(entries, date) ==
    IF entries = <<>> THEN <<>>
    ELSE (IF ParseDate(Head(entries)) # date THEN <<Head(entries)>> ELSE <<>>)
            \o WithoutDate(Tail(entries), date)

\* a delete: read_entries, then rewrite_entries of what the filter keeps; a
\* restart inside read_entries ends the process before anything is rewritten
ThenRewrite(r, dir, kept) ==
    IF r.restart THEN r
    ELSE LET w == RewriteEntries(r.c, dir, kept)
         IN  Outcome(w.c, w.ret, r.entries, r.failures, r.events, FALSE)

\* EntryStorage.delete_entry
DeleteEntry(c, dir, target, sel, yes) ==
    LET r == ReadEntries(c, dir, sel, yes)
    IN  ThenRewrite(r, dir, WithoutEntry(r.entries, target))

\* EntryStorage.delete_entries_by_date
DeleteEntriesByDate(c, dir, date, sel, yes) ==
    LET r == ReadEntries(c, dir, sel, yes)
    IN  ThenRewrite(r, dir, WithoutDate(r.entries, date))

\* the dictionary organize_entries_by_date builds from entries: its keys ...
DateKeys(entries) == {ParseDate(entries[i]) : i \in 1..Len(entries)}

\* ... and the list under a key
RECURSIVE EntriesOfDate(_, _)
EntriesOfDate(entries, date) ==
    IF entries = <<>> THEN <<>>
    ELSE (IF ParseDate(Head(entries)) = date THEN <<Head(entries)>> ELSE <<>>)
            \o EntriesOfDate(Tail(entries), date)

EntriesByDate(entries) == [d \in DateKeys(entries) |-> EntriesOfDate(entries, d)]

(***************************************************************************)
(* The process.  DiaryApplication.__init__ (diary_app.py:30-46):           *)
(* check_and_migrate_files, CryptoManager(), EntryStorage(crypto_manager). *)
(***************************************************************************)
\* check_and_migrate_files, the key file (diary_app.py:68-90)
CheckAndMigrateKey(kf, e) ==
    LET path == <<ResolvePath(kf, e), KeyName>>
    IN  IF kf[<<"cwd", "key.key">>].exists /\ ~kf[path].exists
        THEN [kf EXCEPT ![path] = kf[<<"cwd", "key.key">>]]
        ELSE kf

Here == Files(keyFiles, dataFiles, backups, nextKeyId)

KeyPath == <<proc.key_dir, KeyName>>

\* the record of a call: its arguments and what it returned
Call(op, text, mood, date, r) ==
    [op |-> op, text |-> text, mood |-> mood, date |-> date,
     ret |-> r.ret, entries |-> r.entries, failures |-> r.failures,
     events |-> r.events, restart |-> r.restart, key |-> NoFile]

NoOutcome == Outcome(Here, "none", <<>>, 0, <<>>, FALSE)

\* the key read_entries found active when it swapped, and the one it installed
SwapRecord(r) ==
    [dir |-> proc.key_dir,
     old |-> AfterLoad(Here, proc.key_dir).kf[KeyPath],
     new |-> r.c.kf[<<"cwd", KeyName>>]]

NoSwap == [dir |-> "cwd", old |-> NoFile, new |-> NoFile]

\* history after a handler of the store returned r
HistAfter(r, expected, tracking) ==
    [tracking |-> tracking,
     expected |-> IF tracking THEN expected ELSE <<>>,
     swapped |-> r.restart,
     swap |-> IF r.restart THEN SwapRecord(r) ELSE hist.swap,
     superseded |-> IF r.restart
                    THEN hist.superseded \cup {SwapRecord(r).old}
                    ELSE hist.superseded]

\* the files and the process after a handler of the store returned r; os.execl
\* (storage.py:184) replaces the process by a new run of the program
Leave(r) ==
    /\ keyFiles' = r.c.kf
    /\ dataFiles' = r.c.df
    /\ backups' = r.c.bk
    /\ nextKeyId' = r.c.n
    /\ proc' = IF r.restart THEN [proc EXCEPT !.running = FALSE] ELSE proc
    /\ UNCHANGED <<env, appVars>>

CanRun == proc.running /\ nextKeyId <= MaxKeys

Start ==
    /\ ~proc.running
    /\ proc.runs < MaxRuns
    /\ nextKeyId <= MaxKeys
    /\ LET kf1 == CheckAndMigrateKey(keyFiles, env)
           dir == ResolvePath(kf1, env)
           path == <<dir, KeyName>>
           kf2 == EnsureKeyExists(kf1, path, nextKeyId)
       IN  /\ keyFiles' = kf2
           /\ nextKeyId' = IF EnsureGenerates(kf1, path) THEN nextKeyId + 1 ELSE nextKeyId
           /\ proc' = [running |-> TRUE, key_dir |-> dir, runs |-> proc.runs + 1]
           /\ last' = Call("start", <<>>, <<>>, <<>>, NoOutcome)
           /\ hist' = [hist EXCEPT
                         !.tracking = /\ dataFiles[dir].lines = <<>>
                                      /\ FernetAccepts(kf2[path]),
                         !.expected = <<>>]
    /\ UNCHANGED <<env, dataFiles, backups, appVars>>

\* what the calls so far should have left in the log: a call with an empty or
\* whitespace-only body nothing, any other call its header line and its body
Unsaved == {<<>>, <<" ">>, <<"\n">>, <<" ", " ">>, <<"\n", " ">>, <<" ", "\n">>, <<"\n", "\n">>}

Expected(content, mood, date) ==
    HeaderPrefix \o date \o <<" ", "|", " ", "M", "o", "o", "d", ":", " ">> \o mood
        \o <<" ", "-", "-", "-", "\n">> \o content

SaveEntryCall(content, mood, date) ==
    /\ CanRun
    /\ content \in Unsaved \/ Len(dataFiles[proc.key_dir].lines) < MaxLog
    /\ LET r == SaveEntry(Here, proc.key_dir, content, mood, date)
       IN  /\ Leave(r)
           /\ last' = Call("save_entry", content, mood, date, r)
           /\ hist' = HistAfter(r,
                        IF content \in Unsaved THEN hist.expected
                        ELSE Append(hist.expected, Expected(content, mood, date)),
                        hist.tracking)

\* the user's answers fit the dialogs: an index of the list shown, or cancel
Answers(sel) == sel <= Len(KeyOptions(keyFiles))

ReadEntriesCall(sel, yes) ==
    /\ CanRun
    /\ Answers(sel)
    /\ LET r == ReadEntries(Here, proc.key_dir, sel, yes)
       IN  /\ Leave(r)
           /\ last' = Call("read_entries", <<>>, <<>>, <<>>, r)
           /\ hist' = HistAfter(r, hist.expected, hist.tracking /\ ~r.restart)

OrganizeEntriesByDateCall(sel, yes) ==
    /\ CanRun
    /\ Answers(sel)
    /\ LET r == ReadEntries(Here, proc.key_dir, sel, yes)
       IN  /\ Leave(r)
           /\ last' = Call("organize_entries_by_date", <<>>, <<>>, <<>>, r)
           /\ hist' = HistAfter(r, hist.expected, hist.tracking /\ ~r.restart)

DeleteEntryCall(target, sel, yes) ==
    /\ CanRun
    /\ Answers(sel)
    /\ LET r == DeleteEntry(Here, proc.key_dir, target, sel, yes)
       IN  /\ Leave(r)
           /\ last' = Call("delete_entry", target, <<>>, <<>>, r)
           /\ hist' = HistAfter(r, hist.expected, FALSE)

DeleteEntriesByDateCall(date, sel, yes) ==
    /\ CanRun
    /\ Answers(sel)
    /\ LET r == DeleteEntriesByDate(Here, proc.key_dir, date, sel, yes)
       IN  /\ Leave(r)
           /\ last' = Call("delete_entries_by_date", <<>>, <<>>, date, r)
           /\ hist' = HistAfter(r, hist.expected, FALSE)

\* CryptoManager.load_key, called on its own
LoadKeyCall ==
    /\ CanRun
    /\ keyFiles' = KeyFilesAfterLoad(keyFiles, KeyPath, nextKeyId)
    /\ nextKeyId' = KeyIdAfterLoad(keyFiles, KeyPath, nextKeyId)
    /\ last' = [Call("load_key", <<>>, <<>>, <<>>, NoOutcome)
                  EXCEPT !.key = LoadKey(keyFiles, KeyPath, nextKeyId)]
    /\ hist' = [hist EXCEPT !.tracking = hist.tracking /\ keyFiles' = keyFiles,
                            !.expected = IF hist.tracking /\ keyFiles' = keyFiles
                                         THEN hist.expected ELSE <<>>]
    /\ UNCHANGED <<env, dataFiles, backups, proc, appVars>>

(***************************************************************************)
(* The store under the plain environment, the key file in the working      *)
(* directory: every content a key file may have, a log left by earlier     *)
(* runs under this key or an older one.                                    *)
(***************************************************************************)
Char(c) == <<c>>

StoreDates == {Char("a"), Char("b")}
StoreMoods == {Char("m")}
StoreBodies == {Char("x"), Char(" ")}

EntryA == EntryWithMetadata(Char("x"), Char("m"), Char("a"))
EntryB == EntryWithMetadata(Char("x"), Char("m"), Char("b"))

\* what a user can ask to delete: an entry the view shows, or one it never held
StoreTargets == {EntryA, EntryB}
DeleteDates == {Char("a"), Char("b"), <<" ", "a">>}

OldLines == {Token(ValidKey(1), EntryA), Token(ValidKey(2), EntryB), CorruptLine}

RECURSIVE LogsUpTo(_, _)
LogsUpTo(L, n) ==
    IF n = 0 THEN {<<>>}
    ELSE LET shorter == LogsUpTo(L, n - 1)
         IN  shorter \cup {Append(s, l) : s \in shorter, l \in L}

NoKeys == [p \in KeyPaths |-> NoFile]
NoLogs == [d \in Dirs |-> NoData]

FirstCall ==
    [op |-> "none", text |-> <<>>, mood |-> <<>>, date |-> <<>>,
     ret |-> "none", entries |-> <<>>, failures |-> 0, events |-> <<>>,
     restart |-> FALSE, key |-> NoFile]

FirstHist ==
    [tracking |-> FALSE, expected |-> <<>>, swapped |-> FALSE, swap |-> NoSwap,
     superseded |-> {}]

\* no password file, no legacy file, no run, no token
PasswordName == ".password.txt"
PasswordPaths == {<<d, PasswordName>> : d \in Dirs} \cup {<<"cwd", "password.txt">>}
NoPassword == [exists |-> FALSE, empty |-> TRUE, tok |-> CorruptLine]
NoPasswords == [p \in PasswordPaths |-> NoPassword]
NoText == [exists |-> FALSE, text |-> <<>>]
NoLegacy == [entries |-> NoText, bak |-> NoText]
\* known, password, key: the candidate of the last successful set or reset of
\* the password, and the key file it was saved under
FirstApp ==
    [pc |-> "off", authenticated |-> FALSE, early |-> {},
     known |-> FALSE, password |-> <<>>, key |-> NoFile]

\* the permission bits are followed where NextModes runs only
NoModes == [nt |-> FALSE, created |-> "0644", key |-> "none", password |-> "none",
            log |-> "none"]

\* no delete is under way
NoDelete == [active |-> FALSE, op |-> "none", target |-> <<>>, entries |-> <<>>,
             appended |-> <<>>]

NothingElse ==
    /\ passwordFiles = NoPasswords
    /\ legacy = NoLegacy
    /\ app = FirstApp
    /\ tokens = {}
    /\ modes = NoModes
    /\ deleting = NoDelete

\* the keys on disk when a behaviour starts; generate_key draws new ones
OldKeyIds == {1, 2, 3}
FirstKeyId == Cardinality(OldKeyIds) + 1

InitStore ==
    /\ env = "plain"
    /\ \E active \in {ValidKey(1), Bad44Key, ShortKey, NoFile},
          cand \in {NoFile, ValidKey(2)} :
         keyFiles = [NoKeys EXCEPT ![<<"cwd", KeyName>>] = active,
                                   ![<<"cwd", "key.key">>] = cand]
    /\ \E log \in LogsUpTo(OldLines, MaxLog), there \in BOOLEAN :
         /\ (~there => log = <<>>)
         /\ dataFiles = [NoLogs EXCEPT !["cwd"] = [exists |-> there, lines |-> log]]
    /\ backups = {}
    /\ proc = [running |-> FALSE, key_dir |-> "cwd", runs |-> 0]
    /\ nextKeyId = FirstKeyId
    /\ last = FirstCall
    /\ hist = FirstHist
    /\ NothingElse

\* the key file where each environment resolves it, candidates to recover
\* from in the working directory, a log no line of which the key decrypts
Placements ==
    {<<"plain", "cwd">>, <<"plain", "home">>, <<"plain", "hidden">>,
     <<"darwin_app", "res">>, <<"darwin_app", "appsup">>,
     <<"darwin", "appsup">>, <<"win32", "appdata">>}

InitPlaced ==
    /\ \E pl \in Placements, bak \in {NoFile, ValidKey(3)} :
         /\ env = pl[1]
         /\ keyFiles = [NoKeys EXCEPT ![<<pl[2], KeyName>>] = ValidKey(1),
                                      ![<<"cwd", "key.key">>] = ValidKey(2),
                                      ![<<"cwd", "key.key.bak">>] = bak]
         /\ \E line \in {Token(ValidKey(2), EntryB), Token(ValidKey(3), EntryA)} :
              dataFiles = [NoLogs EXCEPT ![pl[2]] = [exists |-> TRUE, lines |-> <<line>>]]
    /\ backups = {}
    /\ proc = [running |-> FALSE, key_dir |-> "cwd", runs |-> 0]
    /\ nextKeyId = FirstKeyId
    /\ last = FirstCall
    /\ hist = FirstHist
    /\ NothingElse

Init == InitStore \/ InitPlaced

Next ==
    \/ Start
    \/ LoadKeyCall
    \/ \E content \in StoreBodies, mood \in StoreMoods, date \in StoreDates :
         SaveEntryCall(content, mood, date)
    \/ \E sel \in 0..Len(CandidateNames), yes \in BOOLEAN : ReadEntriesCall(sel, yes)
    \/ \E sel \in 0..Len(CandidateNames), yes \in BOOLEAN :
         OrganizeEntriesByDateCall(sel, yes)
    \/ \E target \in StoreTargets, sel \in 0..Len(CandidateNames), yes \in BOOLEAN :
         DeleteEntryCall(target, sel, yes)
    \/ \E date \in DeleteDates, sel \in 0..Len(CandidateNames), yes \in BOOLEAN :
         DeleteEntriesByDateCall(date, sel, yes)

Spec == Init /\ [][Next]_vars

(***************************************************************************)
(* The record format on its own: one entry saved into an empty log under   *)
(* a key Fernet accepts, the date drawn from every string of an alphabet   *)
(* that holds the characters the parsers split on.                         *)
(***************************************************************************)
ParseAlphabet == {"a", " ", "|", "\n"}

ParseDates == StrUpTo(ParseAlphabet, MaxStrLen) \cup {HeaderPrefix \o <<"a">>}
ParseMoods == {<<"m">>, <<>>, <<"|">>, <<"m", "\n">>, <<"m", " ", "-", "-", "-">>}
ParseBodies == {<<"x">>, <<"x", "\n", "y">>, <<"\n", "x">>, <<" ", "x", "|">>}

InitParse ==
    /\ env = "plain"
    /\ keyFiles = [NoKeys EXCEPT ![<<"cwd", KeyName>>] = ValidKey(1)]
    /\ dataFiles = NoLogs
    /\ backups = {}
    /\ proc = [running |-> FALSE, key_dir |-> "cwd", runs |-> 0]
    /\ nextKeyId = FirstKeyId
    /\ last = FirstCall
    /\ hist = FirstHist
    /\ NothingElse

NextParse ==
    \/ Start
    \/ /\ dataFiles[proc.key_dir].lines = <<>>
       /\ \E content \in ParseBodies, mood \in ParseMoods, date \in ParseDates :
            SaveEntryCall(content, mood, date)
    \/ ReadEntriesCall(0, FALSE)

SpecParse == InitParse /\ [][NextParse]_vars

(***************************************************************************)
(* CryptoManager.encrypt, decrypt and try_decrypt called on their own.     *)
(* A call yields a token, a text, or the exception it raises.              *)
(***************************************************************************)
MaxTokens == 2      \* tokens kept for later decrypt calls

\* the string encrypt returns: the token is longer than its plaintext, and
\* it names the key that made it only to that key
TokenText(tok) == <<"token", tok.k>> \o tok.p

Yields(kind, text, tok, error) ==
    [kind |-> kind, text |-> text, tok |-> tok, error |-> error]

Raises(error) == Yields("error", <<>>, CorruptLine, error)

\* encrypt writing the data out as it is
EncryptNothing(kf, path, n, data) ==
    LET key == LoadKey(kf, path, n)
    IN  IF ~FernetAccepts(key) THEN Raises("ValueError")
        ELSE Yields("token", <<>>, [k |-> key.id, p |-> <<>>], "none")

\* CryptoManager.encrypt: Fernet(key) raises ValueError on a key it rejects
Encrypt(kf, path, n, data) ==
    LET key == LoadKey(kf, path, n)
    IN  IF ~FernetAccepts(key) THEN Raises("ValueError")
        ELSE Yields("token", <<>>, Token(key, data), "none")

\* CryptoManager.decrypt: fernet.decrypt raises InvalidToken
Decrypt(kf, path, n, tok) ==
    LET key == LoadKey(kf, path, n)
    IN  IF ~FernetAccepts(key) THEN Raises("ValueError")
        ELSE IF Decrypts(key, tok) THEN Yields("text", tok.p, CorruptLine, "none")
        ELSE Raises("InvalidToken")

\* CryptoManager.try_decrypt
TryDecrypt(kf, path, n, tok) ==
    LET r == Decrypt(kf, path, n, tok)
    IN  IF r.kind = "error" /\ r.error \in {"InvalidToken", "ValueError"}
        THEN Raises("DecryptionError")
        ELSE r

\* a token changed after encrypt returned it: no key authenticates it
Altered(tok) == [tok EXCEPT !.k = 0]

Plaintexts == {<<>>, <<"p">>, <<"p", "q">>}

\* tokens a caller may hold that this key file never made
ForeignTokens == {Token(ValidKey(2), <<"p">>)}

\* what a caller can hand to decrypt: a token as encrypt returned it, one
\* altered since, one made elsewhere, or a string that is no token
Presented ==
    {[origin |-> "made", tok |-> t.tok, plain |-> t.plain, key |-> t.key] : t \in tokens}
        \cup {[origin |-> "altered", tok |-> Altered(t.tok), plain |-> t.plain,
               key |-> t.key] : t \in tokens}
        \cup {[origin |-> "foreign", tok |-> t, plain |-> t.p, key |-> NoFile]
                : t \in ForeignTokens}
        \cup {[origin |-> "malformed", tok |-> CorruptLine, plain |-> <<>>,
               key |-> NoFile]}

CryptoCall(op, text, given, out) ==
    [FirstCall EXCEPT !.op = op, !.text = text, !.ret = out.kind,
                      !.key = LoadKey(keyFiles, KeyPath, nextKeyId)]
        @@ [given |-> given, out |-> out]

\* the key file after the load_key of a call
Loaded ==
    /\ keyFiles' = KeyFilesAfterLoad(keyFiles, KeyPath, nextKeyId)
    /\ nextKeyId' = KeyIdAfterLoad(keyFiles, KeyPath, nextKeyId)

EncryptCall(data) ==
    /\ CanRun
    /\ Cardinality(tokens) < MaxTokens
    /\ Loaded
    /\ LET out == Encrypt(keyFiles, KeyPath, nextKeyId, data)
           given == [origin |-> "none", tok |-> CorruptLine, plain |-> data,
                     key |-> NoFile]
       IN  /\ last' = CryptoCall("encrypt", data, given, out)
           /\ tokens' = IF out.kind = "token"
                        THEN tokens \cup {[tok |-> out.tok, plain |-> data,
                                           key |-> keyFiles'[KeyPath]]}
                        ELSE tokens
    /\ UNCHANGED <<env, dataFiles, backups, proc, hist, passwordFiles, legacy, app,
                   modes, deleting>>

DecryptCall(given) ==
    /\ CanRun
    /\ Loaded
    /\ last' = CryptoCall("decrypt", <<>>, given,
                          Decrypt(keyFiles, KeyPath, nextKeyId, given.tok))
    /\ UNCHANGED <<env, dataFiles, backups, proc, hist, appVars>>

TryDecryptCall(given) ==
    /\ CanRun
    /\ Loaded
    /\ last' = CryptoCall("try_decrypt", <<>>, given,
                          TryDecrypt(keyFiles, KeyPath, nextKeyId, given.tok))
    /\ UNCHANGED <<env, dataFiles, backups, proc, hist, appVars>>

\* CryptoManager.generate_key, called on its own
GenerateKeyCall ==
    /\ CanRun
    /\ keyFiles' = GenerateKey(keyFiles, KeyPath, nextKeyId)
    /\ nextKeyId' = nextKeyId + 1
    /\ last' = [FirstCall EXCEPT !.op = "generate_key", !.key = ValidKey(nextKeyId)]
    /\ UNCHANGED <<env, dataFiles, backups, proc, hist, appVars>>

InitCrypto ==
    /\ env = "plain"
    /\ \E active \in {ValidKey(1), Bad44Key, ShortKey, NoFile} :
         keyFiles = [NoKeys EXCEPT ![<<"cwd", KeyName>>] = active]
    /\ dataFiles = NoLogs
    /\ backups = {}
    /\ proc = [running |-> FALSE, key_dir |-> "cwd", runs |-> 0]
    /\ nextKeyId = FirstKeyId
    /\ last = FirstCall
    /\ hist = FirstHist
    /\ NothingElse

NextCrypto ==
    \/ Start
    \/ GenerateKeyCall
    \/ \E data \in Plaintexts : EncryptCall(data)
    \/ \E given \in Presented : DecryptCall(given)
    \/ \E given \in Presented : TryDecryptCall(given)

SpecCrypto == InitCrypto /\ [][NextCrypto]_vars

(***************************************************************************)
(* AuthManager (auth.py).  A handler is a function of the files (c), of    *)
(* the password files (pw), of the directory of the key path, which is     *)
(* the directory of the password file too (auth.py:27-33), and of what     *)
(* the user types into its dialogs.                                        *)
(***************************************************************************)
max_attempts == 3

\* what askstring returns when the user cancels the dialog
Cancel == <<"None">>

PasswordPath(dir) == <<dir, PasswordName>>

PasswordFile(tok) == [exists |-> TRUE, empty |-> FALSE, tok |-> tok]
\* a password file that holds nothing but whitespace
EmptyPasswordFile == [exists |-> TRUE, empty |-> TRUE, tok |-> CorruptLine]

Done(c, pw, ret, out, asked, attempts) ==
    [c |-> c, pw |-> pw, ret |-> ret, out |-> out, asked |-> asked,
     attempts |-> attempts]

\* AuthManager.save_password: encrypt raising leaves the file as it was
SavePassword(c, pw, dir, password) ==
    LET out == Encrypt(c.kf, <<dir, KeyName>>, c.n, password)
        c1 == AfterLoad(c, dir)
    IN  IF out.kind = "token"
        THEN Done(c1, [pw EXCEPT ![PasswordPath(dir)] = PasswordFile(out.tok)],
                  "None", out, <<>>, 0)
        ELSE Done(c1, pw, out.error, out, <<>>, 0)

\* load_password removing a password file it cannot decrypt
LoadPasswordRecovering(c, pw, dir) ==
    LET f == pw[PasswordPath(dir)]
        out == Decrypt(c.kf, <<dir, KeyName>>, c.n, f.tok)
    IN  IF ~f.exists THEN Done(c, pw, "FileNotFoundError", Raises("FileNotFoundError"), <<>>, 0)
        ELSE IF f.empty
        THEN Done(c, [pw EXCEPT ![PasswordPath(dir)] = NoPassword], "ValueError",
                  Raises("ValueError"), <<>>, 0)
        ELSE IF out.kind = "text" THEN Done(AfterLoad(c, dir), pw, "text", out, <<>>, 0)
        ELSE Done(AfterLoad(c, dir), [pw EXCEPT ![PasswordPath(dir)] = NoPassword],
                  "ValueError", Raises("ValueError"), <<>>, 0)

\* AuthManager.load_password.  decrypt raises InvalidToken or ValueError, never
\* DecryptionError: every failure leaves through "except Exception" as a
\* ValueError, as the empty file does
LoadPassword(c, pw, dir) ==
    LET f == pw[PasswordPath(dir)]
        out == Decrypt(c.kf, <<dir, KeyName>>, c.n, f.tok)
    IN  IF ~f.exists THEN Done(c, pw, "FileNotFoundError", Raises("FileNotFoundError"), <<>>, 0)
        ELSE IF f.empty THEN Done(c, pw, "ValueError", Raises("ValueError"), <<>>, 0)
        ELSE IF out.kind = "text" THEN Done(AfterLoad(c, dir), pw, "text", out, <<>>, 0)
        ELSE IF out.error = "DecryptionError"
        THEN Done(AfterLoad(c, dir), pw, "ValueError", Raises("ValueError"), <<>>, 0)
        ELSE Done(AfterLoad(c, dir), pw, "ValueError", Raises("ValueError"), <<>>, 0)

\* a candidate passing for non-empty whatever it is
NeverEmpty(candidate) == FALSE

\* "if not new_password" (auth.py:149, 197)
IsEmpty(candidate) == candidate = <<>>

\* a confirmation passing whatever it is
NeverDiffers(candidate, confirmation) == FALSE

\* "new_password != confirm_password" (auth.py:160, 208)
Differs(candidate, confirmation) == candidate # confirmation

\* AuthManager.set_initial_password from its attempt_count on.  answers[i] is
\* what the user would type in round i: the candidate and its confirmation
RECURSIVE SetInitialPasswordFrom(_, _, _, _, _)
SetInitialPasswordFrom(c, pw, dir, answers, attempt_count) ==
    IF ~(attempt_count < max_attempts)
    THEN Done(c, pw, "False", Raises("none"), <<"failed_after_attempts">>, attempt_count)
    ELSE LET new_password == answers[attempt_count + 1][1]
             confirm_password == answers[attempt_count + 1][2]
             saved == SavePassword(c, pw, dir, new_password)
         IN  IF new_password = Cancel
             THEN Done(c, pw, "False", Raises("none"), <<"setup_cancelled">>, attempt_count)
             ELSE IF IsEmpty(new_password)
             THEN SetInitialPasswordFrom(c, pw, dir, answers, attempt_count + 1)
             ELSE IF Differs(new_password, confirm_password)
             THEN SetInitialPasswordFrom(c, pw, dir, answers, attempt_count + 1)
             ELSE IF saved.ret = "None"
             THEN Done(saved.c, saved.pw, "True", saved.out, <<"password_set">>,
                       attempt_count)
             ELSE Done(saved.c, saved.pw, "False", saved.out, <<"save_failed">>,
                       attempt_count)

SetInitialPassword(c, pw, dir, answers) ==
    SetInitialPasswordFrom(c, pw, dir, answers, 0)

\* AuthManager.reset_password; save_password raising leaves it as an exception
ResetPassword(c, pw, dir, new_password, confirm_password) ==
    LET saved == SavePassword(c, pw, dir, new_password)
    IN  IF new_password = Cancel THEN Done(c, pw, "False", Raises("none"), <<>>, 0)
        ELSE IF IsEmpty(new_password)
        THEN Done(c, pw, "False", Raises("none"), <<"error_empty">>, 0)
        ELSE IF Differs(new_password, confirm_password)
        THEN Done(c, pw, "False", Raises("none"), <<"error_mismatch">>, 0)
        ELSE IF saved.ret = "None"
        THEN Done(saved.c, saved.pw, "True", saved.out, <<"password_reset">>, 0)
        ELSE Done(saved.c, saved.pw, saved.ret, saved.out, <<>>, 0)

\* authenticate accepting whatever is typed
MatchesAnything(password, stored_password) == TRUE

\* "password == stored_password" (auth.py:97)
Matches(password, stored_password) == password = stored_password

\* AuthManager.authenticate.  password: what the user types into the password
\* prompt; answers: what they would type into the dialogs of the initial setup
Authenticate(c, pw, dir, password, answers) ==
    LET loaded == LoadPassword(c, pw, dir)
    IN  IF ~pw[PasswordPath(dir)].exists
        THEN SetInitialPassword(c, pw, dir, answers)
        ELSE IF password = Cancel
        THEN Done(c, pw, "False", Raises("none"), <<"ask_password">>, 0)
        ELSE IF loaded.out.kind = "text"
        THEN Done(loaded.c, loaded.pw,
                  IF Matches(password, loaded.out.text) THEN "True" ELSE "False",
                  loaded.out, <<"ask_password", "load_password">>, 0)
        ELSE Done(loaded.c, loaded.pw, "False", loaded.out,
                  <<"ask_password", "load_password", "authentication_error">>, 0)

(***************************************************************************)
(* The migration of the plaintext diary_entries.txt, which the             *)
(* constructor of EntryStorage starts (storage.py:18-25, 54-109).          *)
(***************************************************************************)
\* s.split(pat), pat of any length
RECURSIVE SplitFrom(_, _, _, _)
SplitFrom(s, pat, i, start) ==
    IF i > Len(s) THEN <<SubSeq(s, start, Len(s))>>
    ELSE IF StartsWithAt(s, pat, i)
    THEN <<SubSeq(s, start, i - 1)>> \o SplitFrom(s, pat, i + Len(pat), i + Len(pat))
    ELSE SplitFrom(s, pat, i + 1, start)

Split(s, pat) == SplitFrom(s, pat, 1, 1)

\* pat in s
Contains(s, pat) == \E i \in 1..Len(s) : StartsWithAt(s, pat, i)

LegacyDelimiter == <<"\n">> \o HeaderPrefix
NeutralMood == <<"U+1F610", " ", "N", "e", "u", "t", "r", "a", "l">>
Unknown == <<"U", "n", "k", "n", "o", "w", "n">>

\* the loop of _migrate_old_entries saving what precedes the first header too
SkipsNothing(parts, i) == FALSE

\* the loop of _migrate_old_entries (storage.py:79-99) on part i of the split:
\* whether it skips the part, and the entry, date and content it makes of it
Skipped(parts, i) == i = 1 /\ ~StartsWithAt(parts[1], HeaderPrefix, 1)

LegacyEntry(parts, i) == IF i > 1 THEN HeaderPrefix \o parts[i] ELSE parts[i]

LegacyDate(entry) ==
    LET header == SplitFirst(entry, "\n")
    IN  IF Contains(header, HeaderPrefix)
        THEN RemoveAll(RemoveAll(header, HeaderPrefix), HeaderSuffix)
        ELSE Unknown

LegacyContent(entry) == AfterFirst(entry, "\n")

\* save_entry when file.write raises in the log it has opened for appending
\* (storage.py:125-126, 138-140): the log exists and holds what it held
SaveEntryUntil(c, dir, content, mood, date, broken) ==
    LET r == SaveEntry(c, dir, content, mood, date)
    IN  IF broken /\ r.ret = "True"
        THEN Outcome([r.c EXCEPT !.df[dir].lines = c.df[dir].lines],
                     "StorageError", <<>>, 0, <<>>, FALSE)
        ELSE r

\* the loop from part i on: the files it leaves, whether it came to its end,
\* and how often it called save_entry; broken: the number, counted from this
\* part on, of the call of save_entry whose write raises, 0 when none does
RECURSIVE MigrateFrom(_, _, _, _, _)
MigrateFrom(c, dir, parts, i, broken) ==
    IF i > Len(parts) THEN [c |-> c, ok |-> TRUE, calls |-> 0]
    ELSE IF Skipped(parts, i) THEN MigrateFrom(c, dir, parts, i + 1, broken)
    ELSE LET entry == LegacyEntry(parts, i)
             r == SaveEntryUntil(c, dir, LegacyContent(entry), NeutralMood,
                                 LegacyDate(entry), broken = 1)
             rest == MigrateFrom(r.c, dir, parts, i + 1,
                                 IF broken > 0 THEN broken - 1 ELSE 0)
         IN  IF r.ret = "StorageError" THEN [c |-> r.c, ok |-> FALSE, calls |-> 1]
             ELSE [rest EXCEPT !.calls = @ + 1]

Migrated(c, lg, events, calls) ==
    [c |-> c, lg |-> lg, events |-> events, calls |-> calls]

\* EntryStorage._migrate_old_entries; yes: the answer to its question
MigrateOldEntries(c, lg, dir, yes, broken) ==
    LET m == MigrateFrom(c, dir, Split(lg.entries.text, LegacyDelimiter), 1, broken)
        saves == [i \in 1..m.calls |-> "save_entry"]
    IN  IF ~yes THEN Migrated(c, lg, <<"ask_migrate">>, 0)
        ELSE IF m.ok
        THEN Migrated(m.c, [entries |-> NoText, bak |-> lg.entries],
                      <<"ask_migrate">> \o saves \o <<"rename", "migration_successful">>,
                      m.calls)
        ELSE Migrated(m.c, lg, <<"ask_migrate">> \o saves \o <<"migration_error">>,
                      m.calls)

\* _check_migration looking at the old file only
MigrationDueWithoutStore(lg, df, dir) == lg.entries.exists

\* storage.py:57
MigrationDue(lg, df, dir) == lg.entries.exists /\ ~df[dir].exists

\* EntryStorage._check_migration
CheckMigration(c, lg, dir, yes, broken) ==
    IF MigrationDue(lg, c.df, dir) THEN MigrateOldEntries(c, lg, dir, yes, broken)
    ELSE Migrated(c, lg, <<>>, 0)

(***************************************************************************)
(* A run of the application: DiaryApplication.__init__ constructs the      *)
(* managers, EntryStorage, then MainWindow, whose constructor              *)
(* authenticates and either sets up the session or exits.                  *)
(***************************************************************************)
\* check_and_migrate_files, the password file (diary_app.py:92-112); the key
\* path is the one resolved before the key file was copied
CheckAndMigratePassword(pw, kf, e) ==
    LET path == PasswordPath(ResolvePath(kf, e))
    IN  IF pw[<<"cwd", "password.txt">>].exists /\ ~pw[path].exists
        THEN [pw EXCEPT ![path] = pw[<<"cwd", "password.txt">>]]
        ELSE pw

\* diary_app.py:30-45: check_and_migrate_files, CryptoManager(), AuthManager()
AppStart ==
    /\ ~proc.running
    /\ proc.runs < MaxRuns
    /\ nextKeyId <= MaxKeys
    /\ LET kf1 == CheckAndMigrateKey(keyFiles, env)
           dir == ResolvePath(kf1, env)
           path == <<dir, KeyName>>
       IN  /\ keyFiles' = EnsureKeyExists(kf1, path, nextKeyId)
           /\ nextKeyId' = IF EnsureGenerates(kf1, path) THEN nextKeyId + 1 ELSE nextKeyId
           /\ proc' = [running |-> TRUE, key_dir |-> dir, runs |-> proc.runs + 1]
    /\ passwordFiles' = CheckAndMigratePassword(passwordFiles, keyFiles, env)
    /\ app' = [app EXCEPT !.pc = "storage", !.authenticated = FALSE, !.early = {}]
    /\ last' = [FirstCall EXCEPT !.op = "start"]
    /\ UNCHANGED <<env, dataFiles, backups, hist, legacy, tokens, modes, deleting>>

\* diary_app.py:46: EntryStorage(crypto_manager), before the main window
EntryStorageInit(yes, broken) ==
    /\ proc.running /\ app.pc = "storage"
    /\ nextKeyId <= MaxKeys
    /\ LET r == CheckMigration(Here, legacy, proc.key_dir, yes, broken)
       IN  /\ keyFiles' = r.c.kf
           /\ dataFiles' = r.c.df
           /\ backups' = r.c.bk
           /\ nextKeyId' = r.c.n
           /\ legacy' = r.lg
           /\ last' = [FirstCall EXCEPT !.op = "EntryStorage", !.events = r.events]
           /\ app' = [app EXCEPT !.pc = "window",
                                 !.early = IF r.calls > 0 THEN @ \cup {"save_entry"}
                                           ELSE @]
    /\ UNCHANGED <<env, proc, hist, passwordFiles, tokens, modes, deleting>>

\* MainWindow.__init__ going on to setup_ui whatever authenticate returned
EntersAlways(ret) == TRUE

\* main_window.py:38-39: sys.exit(0) unless authenticate returned True
EntersSession(ret) == ret = "True"

InSession == proc.running /\ app.pc = "session"

Passwords == {<<"p">>, <<"q">>}
Typed == Passwords \cup {<<>>, Cancel}

\* a round of the initial setup: the candidate typed and its confirmation
AnswerPairs ==
    {<<Cancel, Cancel>>, <<<<>>, <<>>>>, <<<<"p">>, <<"p">>>>, <<<<"p">>, <<"q">>>>,
     <<<<"p">>, Cancel>>, <<<<"q">>, <<"q">>>>}

NoAnswers == [i \in 1..max_attempts |-> <<Cancel, Cancel>>]

\* diary_app.py:49: MainWindow(auth_manager, storage_manager, root), whose
\* constructor calls AuthManager.authenticate (main_window.py:37-42)
MainWindowInit(password, answers) ==
    /\ proc.running /\ app.pc = "window"
    /\ nextKeyId <= MaxKeys
    /\ IF passwordFiles[PasswordPath(proc.key_dir)].exists
       THEN answers = NoAnswers ELSE password = Cancel
    /\ LET setup == ~passwordFiles[PasswordPath(proc.key_dir)].exists
           r == Authenticate(Here, passwordFiles, proc.key_dir, password, answers)
           set == setup /\ r.ret = "True"
       IN  /\ keyFiles' = r.c.kf
           /\ nextKeyId' = r.c.n
           /\ passwordFiles' = r.pw
           /\ proc' = [proc EXCEPT !.running = EntersSession(r.ret)]
           /\ app' = [app EXCEPT
                        !.pc = IF EntersSession(r.ret) THEN "session" ELSE "off",
                        !.authenticated = (r.ret = "True"),
                        !.known = IF set THEN TRUE ELSE @,
                        !.password = IF set THEN answers[r.attempts + 1][1] ELSE @,
                        !.key = IF set THEN r.c.kf[KeyPath] ELSE @]
           /\ last' = [FirstCall EXCEPT !.op = "authenticate", !.text = password,
                                        !.ret = r.ret, !.events = r.asked]
                        @@ [answers |-> answers, out |-> r.out,
                            attempts |-> r.attempts, setup |-> setup]
    /\ UNCHANGED <<env, dataFiles, backups, hist, legacy, tokens, modes, deleting>>

\* Settings > Reset Password (main_window.py:125-128)
ResetPasswordCall(new_password, confirm_password) ==
    /\ InSession
    /\ nextKeyId <= MaxKeys
    /\ LET r == ResetPassword(Here, passwordFiles, proc.key_dir, new_password,
                              confirm_password)
           set == r.ret = "True"
       IN  /\ keyFiles' = r.c.kf
           /\ nextKeyId' = r.c.n
           /\ passwordFiles' = r.pw
           /\ app' = [app EXCEPT !.known = IF set THEN TRUE ELSE @,
                                 !.password = IF set THEN new_password ELSE @,
                                 !.key = IF set THEN r.c.kf[KeyPath] ELSE @]
           /\ last' = [FirstCall EXCEPT !.op = "reset_password", !.text = new_password,
                                        !.ret = r.ret, !.events = r.asked]
                        @@ [confirmation |-> confirm_password, out |-> r.out]
    /\ UNCHANGED <<env, dataFiles, backups, proc, hist, legacy, tokens, modes,
                   deleting>>

\* the tabs of the session calling the store
SessionSaveEntry(content, mood, date) == InSession /\ SaveEntryCall(content, mood, date)

SessionReadEntries == InSession /\ ReadEntriesCall(0, FALSE)

\* File > Exit, or the window closed (main_window.py:120, 174-176)
Close ==
    /\ InSession
    /\ proc' = [proc EXCEPT !.running = FALSE]
    /\ app' = [app EXCEPT !.pc = "off"]
    /\ last' = [FirstCall EXCEPT !.op = "close"]
    /\ UNCHANGED <<env, keyFiles, dataFiles, backups, nextKeyId, hist,
                   passwordFiles, legacy, tokens, modes, deleting>>

\* the files a run may find: a key file or none, a password file saved under
\* this key or under another, or emptied, or still under its old name, a
\* plaintext diary of the first version, a log of this version
LegacyOne == HeaderPrefix \o <<"a">> \o HeaderSuffix \o <<"\n", "x">>
LegacyTwo == LegacyOne \o LegacyDelimiter \o <<"b">> \o HeaderSuffix \o <<"\n", "y">>
LegacyBlank == HeaderPrefix \o <<"a">> \o HeaderSuffix \o <<"\n", " ">>
LegacyNotes == <<"n", "\n", "x">>
LegacyUndated == HeaderPrefix \o HeaderSuffix \o <<"\n", "x">>
LegacyTexts == {LegacyOne, LegacyTwo, LegacyBlank, LegacyUndated, LegacyNotes}

InitApp ==
    /\ env = "plain"
    /\ \E active \in {ValidKey(1), Bad44Key, NoFile} :
         keyFiles = [NoKeys EXCEPT ![<<"cwd", KeyName>>] = active]
    /\ \E f \in {NoPassword, EmptyPasswordFile,
                 PasswordFile(Token(ValidKey(1), <<"p">>)),
                 PasswordFile(Token(ValidKey(2), <<"p">>))},
          old \in {NoPassword, PasswordFile(Token(ValidKey(1), <<"q">>))} :
         /\ old.exists => ~f.exists
         /\ passwordFiles = [NoPasswords EXCEPT ![<<"cwd", PasswordName>>] = f,
                                                ![<<"cwd", "password.txt">>] = old]
    /\ \E text \in LegacyTexts, there \in BOOLEAN :
         legacy = [NoLegacy EXCEPT !.entries =
                      IF there THEN [exists |-> TRUE, text |-> text] ELSE NoText]
    /\ \E log \in {NoData, [exists |-> TRUE, lines |-> <<Token(ValidKey(1), EntryA)>>]} :
         dataFiles = [NoLogs EXCEPT !["cwd"] = log]
    /\ backups = {}
    /\ proc = [running |-> FALSE, key_dir |-> "cwd", runs |-> 0]
    /\ nextKeyId = FirstKeyId
    /\ last = FirstCall
    /\ hist = FirstHist
    /\ app = FirstApp
    /\ tokens = {}
    /\ modes = NoModes
    /\ deleting = NoDelete

NextApp ==
    \/ AppStart
    \/ \E yes \in BOOLEAN, broken \in 0..MaxLog : EntryStorageInit(yes, broken)
    \/ \E password \in Typed, answers \in [1..max_attempts -> AnswerPairs] :
         MainWindowInit(password, answers)
    \/ \E new_password \in Typed, confirm_password \in Typed :
         ResetPasswordCall(new_password, confirm_password)
    \/ SessionSaveEntry(<<"x">>, <<"m">>, <<"a">>)
    \/ SessionReadEntries
    \/ Close

SpecApp == InitApp /\ [][NextApp]_vars

(***************************************************************************)
(* rewrite_entries called on its own, and a write that fails.  The file    *)
(* is opened with mode "w", which empties it, before the first entry is    *)
(* encrypted and written (storage.py:377-380); broken is the number of     *)
(* the entry whose write raises, 0 when every write succeeds.              *)
(***************************************************************************)
\* EntryStorage.rewrite_entries
RewriteEntriesUntil(c, dir, entries, broken) ==
    IF broken \in 1..Len(entries)
    THEN Outcome(RewriteEntries(c, dir, SubSeq(entries, 1, broken - 1)).c,
                 "StorageError", <<>>, 0, <<>>, FALSE)
    ELSE RewriteEntries(c, dir, entries)

\* EntryStorage.delete_entry
DeleteEntryUntil(c, dir, target, sel, yes, broken) ==
    LET r == ReadEntries(c, dir, sel, yes)
        w == RewriteEntriesUntil(r.c, dir, WithoutEntry(r.entries, target), broken)
    IN  IF r.restart THEN r
        ELSE Outcome(w.c, w.ret, r.entries, r.failures, r.events, FALSE)

\* a text without the header line save_entry writes
Note == <<"n", "o", "t", "e">>

Rewritable == {EntryA, EntryB, Note}

RewriteEntriesCall(entries, broken) ==
    /\ CanRun
    /\ LET r == RewriteEntriesUntil(Here, proc.key_dir, entries, broken)
       IN  /\ Leave(r)
           /\ last' = [Call("rewrite_entries", <<>>, <<>>, <<>>, r)
                         EXCEPT !.entries = entries]
           /\ hist' = HistAfter(r, hist.expected, FALSE)

DeleteEntryUntilCall(target, broken) ==
    /\ CanRun
    /\ LET r == DeleteEntryUntil(Here, proc.key_dir, target, 0, FALSE, broken)
       IN  /\ Leave(r)
           /\ last' = Call("delete_entry", target, <<>>, <<>>, r)
           /\ hist' = HistAfter(r, hist.expected, FALSE)

InitRewrite ==
    /\ env = "plain"
    /\ \E active \in {ValidKey(1), Bad44Key} :
         keyFiles = [NoKeys EXCEPT ![<<"cwd", KeyName>>] = active]
    /\ \E log \in LogsUpTo({Token(ValidKey(1), EntryA), Token(ValidKey(1), EntryB),
                            CorruptLine}, MaxLog) :
         dataFiles = [NoLogs EXCEPT !["cwd"] = [exists |-> TRUE, lines |-> log]]
    /\ backups = {}
    /\ proc = [running |-> FALSE, key_dir |-> "cwd", runs |-> 0]
    /\ nextKeyId = FirstKeyId
    /\ last = FirstCall
    /\ hist = FirstHist
    /\ NothingElse

NextRewrite ==
    \/ Start
    \/ \E entries \in LogsUpTo(Rewritable, MaxLog), broken \in 0..MaxLog :
         RewriteEntriesCall(entries, broken)
    \/ \E target \in Rewritable, broken \in 0..MaxLog :
         DeleteEntryUntilCall(target, broken)
    \/ ReadEntriesCall(0, FALSE)
    \/ OrganizeEntriesByDateCall(0, FALSE)

SpecRewrite == InitRewrite /\ [][NextRewrite]_vars

(***************************************************************************)
(* A run in whose session the key recovery dialog of read_entries is       *)
(* answered: none of the lines of the log decrypts under the active key,   *)
(* a candidate key file lies beside it, and the password file was saved    *)
(* under one of the two keys.                                              *)
(***************************************************************************)
\* read_entries in the session, sel the key selected in the dialog, 0 for none
SessionRecoverEntries(sel) == InSession /\ ReadEntriesCall(sel, FALSE)

InitRecover ==
    /\ env = "plain"
    /\ \E candidate \in {ValidKey(1), ValidKey(2)} :
         keyFiles = [NoKeys EXCEPT ![<<"cwd", KeyName>>] = ValidKey(1),
                                   ![<<"cwd", CandidateNames[1]>>] = candidate]
    /\ \E f \in {PasswordFile(Token(ValidKey(1), <<"p">>)),
                 PasswordFile(Token(ValidKey(2), <<"p">>))} :
         passwordFiles = [NoPasswords EXCEPT ![<<"cwd", PasswordName>>] = f]
    /\ \E log \in LogsUpTo({Token(ValidKey(2), EntryA), CorruptLine}, MaxLog) :
         dataFiles = [NoLogs EXCEPT !["cwd"] = [exists |-> TRUE, lines |-> log]]
    /\ legacy = NoLegacy
    /\ backups = {}
    /\ proc = [running |-> FALSE, key_dir |-> "cwd", runs |-> 0]
    /\ nextKeyId = FirstKeyId
    /\ last = FirstCall
    /\ hist = FirstHist
    /\ app = FirstApp
    /\ tokens = {}
    /\ modes = NoModes
    /\ deleting = NoDelete

NextRecover ==
    \/ AppStart
    \/ EntryStorageInit(FALSE, 0)
    \/ \E password \in Typed : MainWindowInit(password, NoAnswers)
    \/ \E new_password \in Passwords : ResetPasswordCall(new_password, new_password)
    \/ \E sel \in 0..1 : SessionRecoverEntries(sel)
    \/ Close

SpecRecover == InitRecover /\ [][NextRecover]_vars

(***************************************************************************)
(* CryptoManager._resolve_path for any requested name (crypto.py:20-92),   *)
(* the resolved path told by the place it lies in and by whether           *)
(* os.path.isabs holds of it.  What the function reads of its environment: *)
(* the platform and whether the program is frozen (env), whether the name  *)
(* exists in each place it looks at (there), the home directory and        *)
(* APPDATA.  os.path.abspath yields an absolute path; os.path.join(a, b)   *)
(* of a relative b is absolute exactly when a is, and on Windows, given a  *)
(* b with a drive other than that of a, it is b.  The directory of         *)
(* sys.executable is taken to be absolute.                                 *)
(***************************************************************************)
\* the requested names: "/k/test.key", "test.key", and on Windows "D:test.key"
RequestedNames == {"absolute", "relative", "drive"}
HomeDirs == {"absolute", "relative"}
AppDataDirs == {"absolute", "relative", "unset"}

\* os.path.isabs(key_path)
IsAbs(name) == name = "absolute"

Resolved(dir, abs) == [dir |-> dir, abs |-> abs]

\* os.path.isabs(os.path.join(base, ..., key_path)), key_path not absolute
JoinedIsAbs(base, name) == name # "drive" /\ base = "absolute"

\* os.path.isabs(os.path.abspath(key_path))
AbspathIsAbs(name) == TRUE

ResolvePathOf(name, e, there, home, appdata) ==
    IF IsAbs(name) THEN Resolved("given", TRUE)
    ELSE IF e = "darwin_app" /\ "res" \in there
    THEN Resolved("res", JoinedIsAbs("absolute", name))
    ELSE IF e \in {"darwin_app", "darwin"}
    THEN Resolved("appsup", JoinedIsAbs(home, name))
    ELSE IF e = "win32" /\ appdata # "unset"
    THEN Resolved("appdata", JoinedIsAbs(appdata, name))
    ELSE IF "cwd" \in there THEN Resolved("cwd", AbspathIsAbs(name))
    ELSE IF "home" \in there THEN Resolved("home", JoinedIsAbs(home, name))
    ELSE IF "hidden" \in there THEN Resolved("hidden", JoinedIsAbs(home, name))
    ELSE Resolved("cwd", AbspathIsAbs(name))

\* the environments a call can meet: a name with a drive is one of Windows,
\* and joined to home it names the file abspath names
Meets(name, e, there, home, appdata) ==
    /\ name = "drive" => e \in {"win32", "plain"}
    /\ name = "drive" => ("cwd" \in there <=> "home" \in there)
    /\ name = "drive" => ("cwd" \in there <=> "hidden" \in there)
    /\ e # "win32" => appdata = "unset"
    /\ "res" \in there => e = "darwin_app"
    /\ "appsup" \in there => e \in {"darwin_app", "darwin"}
    /\ "appdata" \in there => e = "win32" /\ appdata # "unset"

ResolvePathCall(name, there, home, appdata) ==
    /\ Meets(name, env, there, home, appdata)
    /\ last' = [FirstCall EXCEPT !.op = "resolve_path"]
                 @@ [key_path |-> name, there |-> there, home |-> home,
                     appdata |-> appdata,
                     resolved |-> ResolvePathOf(name, env, there, home, appdata)]
    /\ UNCHANGED <<env, keyFiles, dataFiles, backups, proc, nextKeyId, hist, appVars>>

InitResolve ==
    /\ env \in Envs
    /\ keyFiles = NoKeys
    /\ dataFiles = NoLogs
    /\ backups = {}
    /\ proc = [running |-> FALSE, key_dir |-> "cwd", runs |-> 0]
    /\ nextKeyId = FirstKeyId
    /\ last = FirstCall
    /\ hist = FirstHist
    /\ NothingElse

NextResolve ==
    \E name \in RequestedNames, there \in SUBSET Dirs, home \in HomeDirs,
       appdata \in AppDataDirs :
        ResolvePathCall(name, there, home, appdata)

SpecResolve == InitResolve /\ [][NextResolve]_vars

(***************************************************************************)
(* The permission bits of the key file, the password file and the entry    *)
(* log.  A file that open() creates gets the bits the umask leaves         *)
(* (modes.created), a file that is there keeps its bits when it is opened  *)
(* for writing; os.chmod(path, S_IRUSR | S_IWUSR) is called where          *)
(* os.name is not "nt" and may fail, which the callers only print          *)
(* (crypto.py:148-154, auth.py:238-244, storage.py:129-135).               *)
(***************************************************************************)
OwnerOnly == "0600"
FileModes == {OwnerOnly, "0644"}

\* open(path, "w") or open(path, "a") of a file with these bits, "none" if absent
Opened(mode) == IF mode = "none" THEN modes.created ELSE mode

\* the guarded os.chmod; failed: it raised
Chmod(mode, failed) == IF ~modes.nt /\ ~failed THEN OwnerOnly ELSE mode

ModesCall(op, ret, failed) ==
    [FirstCall EXCEPT !.op = op, !.ret = ret] @@ [chmod_failed |-> failed]

\* CryptoManager.generate_key
GenerateKeyModes(failed) ==
    /\ CanRun
    /\ keyFiles' = GenerateKey(keyFiles, KeyPath, nextKeyId)
    /\ nextKeyId' = nextKeyId + 1
    /\ modes' = [modes EXCEPT !.key = Chmod(Opened(@), failed)]
    /\ last' = ModesCall("generate_key", "key", failed)
    /\ UNCHANGED <<env, dataFiles, backups, proc, hist, passwordFiles, legacy, app,
                   tokens, deleting>>

\* AuthManager.save_password
SavePasswordModes(password, failed) ==
    /\ CanRun
    /\ LET r == SavePassword(Here, passwordFiles, proc.key_dir, password)
       IN  /\ keyFiles' = r.c.kf
           /\ nextKeyId' = r.c.n
           /\ passwordFiles' = r.pw
           /\ modes' = IF r.ret = "None"
                       THEN [modes EXCEPT !.password = Chmod(Opened(@), failed)]
                       ELSE modes
           /\ last' = ModesCall("save_password", r.ret, failed)
    /\ UNCHANGED <<env, dataFiles, backups, proc, hist, legacy, app, tokens, deleting>>

\* EntryStorage.save_entry
SaveEntryModes(content, failed) ==
    /\ CanRun
    /\ Len(dataFiles[proc.key_dir].lines) < MaxLog
    /\ LET r == SaveEntry(Here, proc.key_dir, content, <<"m">>, <<"a">>)
       IN  /\ keyFiles' = r.c.kf
           /\ nextKeyId' = r.c.n
           /\ dataFiles' = r.c.df
           /\ modes' = IF r.ret = "True"
                       THEN [modes EXCEPT !.log = Chmod(Opened(@), failed)]
                       ELSE modes
           /\ last' = ModesCall("save_entry", r.ret, failed)
    /\ UNCHANGED <<env, backups, proc, hist, passwordFiles, legacy, app, tokens,
                   deleting>>

\* EntryStorage.rewrite_entries, which calls no os.chmod
RewriteEntriesModes(entries) ==
    /\ CanRun
    /\ LET r == RewriteEntries(Here, proc.key_dir, entries)
       IN  /\ keyFiles' = r.c.kf
           /\ nextKeyId' = r.c.n
           /\ dataFiles' = r.c.df
           /\ modes' = [modes EXCEPT !.log = Opened(@)]
           /\ last' = ModesCall("rewrite_entries", r.ret, FALSE)
    /\ UNCHANGED <<env, backups, proc, hist, passwordFiles, legacy, app, tokens,
                   deleting>>

\* a process on a platform or another, under a umask or another, that finds
\* a key file of its own and a log it wrote, if any, with owner-only bits
InitModes ==
    /\ env = "plain"
    /\ keyFiles = [NoKeys EXCEPT ![<<"cwd", KeyName>>] = ValidKey(1)]
    /\ \E log \in LogsUpTo({Token(ValidKey(1), EntryA)}, 1) :
         /\ dataFiles = [NoLogs EXCEPT !["cwd"] =
                           [exists |-> log # <<>>, lines |-> log]]
         /\ \E nt \in BOOLEAN, created \in FileModes :
              modes = [nt |-> nt, created |-> created,
                       key |-> IF nt THEN created ELSE OwnerOnly,
                       password |-> "none",
                       log |-> IF log = <<>> THEN "none"
                               ELSE IF nt THEN created ELSE OwnerOnly]
    /\ backups = {}
    /\ proc = [running |-> FALSE, key_dir |-> "cwd", runs |-> 0]
    /\ nextKeyId = FirstKeyId
    /\ last = FirstCall
    /\ hist = FirstHist
    /\ passwordFiles = NoPasswords
    /\ legacy = NoLegacy
    /\ app = FirstApp
    /\ tokens = {}
    /\ deleting = NoDelete

NextModes ==
    \/ Start
    \/ \E failed \in BOOLEAN : GenerateKeyModes(failed)
    \/ \E password \in Passwords, failed \in BOOLEAN : SavePasswordModes(password, failed)
    \/ \E content \in {<<"x">>, <<" ">>}, failed \in BOOLEAN :
         SaveEntryModes(content, failed)
    \/ \E entries \in LogsUpTo({EntryA}, 1) : RewriteEntriesModes(entries)

SpecModes == InitModes /\ [][NextModes]_vars

(***************************************************************************)
(* Two processes on one entry log.  Nothing in storage.py locks the log,   *)
(* and delete_entry and delete_entries_by_date are two file operations:    *)
(* read_entries reads the log into a list (storage.py:346, 355), and       *)
(* rewrite_entries writes what the filter keeps of that list               *)
(* (storage.py:348, 370).  The other process's save_entry, one append      *)
(* (storage.py:125-126), may come before, between or after the two.        *)
(* deleting holds the list of the delete under way, and the entries the    *)
(* other process appended since the list was read.                         *)
(***************************************************************************)
\* what the delete under way would write if it read the log again
KeptReadAgain(d, c, dir) ==
    LET entries == ReadEntries(c, dir, 0, FALSE).entries
    IN  IF d.op = "delete_entry" THEN WithoutEntry(entries, d.target)
        ELSE WithoutDate(entries, d.target)

\* the argument of rewrite_entries in the delete under way (storage.py:347-348,
\* 357-370): the list read before, filtered
Kept(d, c, dir) ==
    IF d.op = "delete_entry" THEN WithoutEntry(d.entries, d.target)
    ELSE WithoutDate(d.entries, d.target)

\* the first half of a delete: its read_entries
DeleteReads(op, target) ==
    /\ CanRun
    /\ ~deleting.active
    /\ LET r == ReadEntries(Here, proc.key_dir, 0, FALSE)
       IN  /\ keyFiles' = r.c.kf
           /\ dataFiles' = r.c.df
           /\ backups' = r.c.bk
           /\ nextKeyId' = r.c.n
           /\ deleting' = [active |-> TRUE, op |-> op, target |-> target,
                           entries |-> r.entries, appended |-> <<>>]
           /\ last' = Call("read_entries", <<>>, <<>>, <<>>, r)
    /\ UNCHANGED <<env, proc, hist, passwordFiles, legacy, app, tokens, modes>>

\* the second half: its rewrite_entries, and what the delete returns
DeleteRewrites ==
    /\ CanRun
    /\ deleting.active
    /\ LET w == RewriteEntries(Here, proc.key_dir, Kept(deleting, Here, proc.key_dir))
       IN  /\ keyFiles' = w.c.kf
           /\ dataFiles' = w.c.df
           /\ backups' = w.c.bk
           /\ nextKeyId' = w.c.n
           /\ deleting' = [deleting EXCEPT !.active = FALSE]
           /\ last' = [FirstCall EXCEPT !.op = deleting.op, !.text = deleting.target,
                                        !.ret = w.ret, !.entries = deleting.entries]
    /\ UNCHANGED <<env, proc, hist, passwordFiles, legacy, app, tokens, modes>>

\* save_entry of the other process, which resolved the same key path
OtherSaveEntry(content, mood, date) ==
    /\ CanRun
    /\ Len(dataFiles[proc.key_dir].lines) < MaxLog
    /\ LET r == SaveEntry(Here, proc.key_dir, content, mood, date)
       IN  /\ keyFiles' = r.c.kf
           /\ dataFiles' = r.c.df
           /\ backups' = r.c.bk
           /\ nextKeyId' = r.c.n
           /\ deleting' = IF deleting.active /\ r.ret = "True"
                          THEN [deleting EXCEPT !.appended =
                                  Append(@, EntryWithMetadata(content, mood, date))]
                          ELSE deleting
           /\ last' = Call("save_entry", content, mood, date, r)
    /\ UNCHANGED <<env, proc, hist, passwordFiles, legacy, app, tokens, modes>>

InitRace ==
    /\ env = "plain"
    /\ keyFiles = [NoKeys EXCEPT ![<<"cwd", KeyName>>] = ValidKey(1)]
    /\ \E log \in LogsUpTo({Token(ValidKey(1), EntryA), Token(ValidKey(1), EntryB),
                            CorruptLine}, MaxLog) :
         dataFiles = [NoLogs EXCEPT !["cwd"] = [exists |-> TRUE, lines |-> log]]
    /\ backups = {}
    /\ proc = [running |-> FALSE, key_dir |-> "cwd", runs |-> 0]
    /\ nextKeyId = FirstKeyId
    /\ last = FirstCall
    /\ hist = FirstHist
    /\ NothingElse

NextRace ==
    \/ Start
    \/ \E target \in StoreTargets : DeleteReads("delete_entry", target)
    \/ \E date \in StoreDates : DeleteReads("delete_entries_by_date", date)
    \/ DeleteRewrites
    \/ \E content \in StoreBodies, date \in StoreDates :
         OtherSaveEntry(content, Char("m"), date)

SpecRace == InitRace /\ [][NextRace]_vars

(***************************************************************************)
(* What the claims speak of.                                               *)
(***************************************************************************)
\* what read_entries would return now, no dialog answered
EntriesOf(c, dir) == ReadEntries(c, dir, 0, FALSE).entries
EntriesNow == EntriesOf(Here, proc.key_dir)

\* the lines of the log of the running process, and its key file
LogLines == dataFiles[proc.key_dir].lines
ActiveKey == keyFiles[KeyPath]

\* line i of the log decrypts under the key the key file holds
LineDecrypts(i) ==
    /\ ActiveKey.exists /\ ActiveKey.len = FernetKeyLen /\ ActiveKey.fernet
    /\ LogLines[i].k = ActiveKey.id

Undecryptable == {i \in 1..Len(LogLines) : ~LineDecrypts(i)}

\* the plaintexts of the lines that decrypt, in file order
RECURSIVE PlainFrom(_)
PlainFrom(i) ==
    IF i > Len(LogLines) THEN <<>>
    ELSE (IF LineDecrypts(i) THEN <<LogLines[i].p>> ELSE <<>>) \o PlainFrom(i + 1)

Occurs(e, events) == \E i \in 1..Len(events) : events[i] = e

(***************************************************************************)
(* C1.  Starting from an empty or absent log and a key Fernet accepts,     *)
(* after any sequence of save_entry calls read_entries returns exactly the *)
(* serialized entries of the calls with a non-blank body, in call order;   *)
(* a save_entry call with a blank body returns False and leaves the log    *)
(* unchanged.                                                              *)
(***************************************************************************)
C1_ReadsWhatWasSaved ==
    (proc.running /\ hist.tracking) => EntriesNow = hist.expected

C1_BlankRejected ==
    (last'.op = "save_entry" /\ last'.text \in Unsaved)
        => (last'.ret = "False" /\ dataFiles' = dataFiles)

C1_AppendRead == [](C1_ReadsWhatWasSaved) /\ [][C1_BlankRejected]_vars

C1_Witness ==
    /\ hist.tracking /\ Len(hist.expected) = 2
    /\ last.op = "save_entry" /\ last.text = <<" ">> /\ last.ret = "False"

(***************************************************************************)
(* C4.  After delete_entry(target) on a fully decryptable log,             *)
(* read_entries returns the previous entries without every entry equal to  *)
(* target, the others in their previous order.                             *)
(***************************************************************************)
FullyDecryptable == dataFiles[proc.key_dir].exists /\ Undecryptable = {}

RECURSIVE Others(_, _)
Others(entries, target) ==
    IF entries = <<>> THEN <<>>
    ELSE IF Head(entries) = target THEN Others(Tail(entries), target)
    ELSE <<Head(entries)>> \o Others(Tail(entries), target)

C4_Step ==
    (last'.op = "delete_entry" /\ FullyDecryptable)
        => /\ last'.ret = "True"
           /\ EntriesNow' = Others(PlainFrom(1), last'.text)

C4_DeleteEntryRemovesAllMatches == [][C4_Step]_vars

\* both copies of an entry saved twice are gone
C4_Witness ==
    /\ last.op = "delete_entry" /\ last.ret = "True"
    /\ last.entries = <<EntryA, EntryA>> /\ last.text = EntryA
    /\ EntriesNow = <<>>

(***************************************************************************)
(* C3.  After delete_entries_by_date(D) returns, the dictionary of         *)
(* organize_entries_by_date has no key D, and under every other date the   *)
(* same entries as before the call.                                        *)
(***************************************************************************)
GroupsOf(c, dir) == EntriesByDate(EntriesOf(c, dir))

C3_Step ==
    (last'.op = "delete_entries_by_date" /\ last'.ret = "True")
        => LET before == GroupsOf(Here, proc.key_dir)
               after == GroupsOf(Here', proc.key_dir)
           IN  /\ last'.date \notin DOMAIN after
               /\ DOMAIN after = (DOMAIN before) \ {last'.date}
               /\ \A d \in DOMAIN after : after[d] = before[d]

C3_DeleteByDate == [][C3_Step]_vars

\* a date was deleted and another date kept its entries
C3_Witness ==
    /\ last.op = "delete_entries_by_date" /\ last.ret = "True"
    /\ last.date = <<"a">> /\ Len(last.entries) = 2
    /\ DOMAIN GroupsOf(Here, proc.key_dir) = {<<"b">>}

(***************************************************************************)
(* C5.  On a log of N lines of which K, 0 < K < N, do not decrypt under    *)
(* the current key, read_entries returns the N-K decryptable entries in    *)
(* file order, reports K failures, raises nothing, does not run the        *)
(* recovery protocol and leaves the log file unchanged.                    *)
(***************************************************************************)
C5_Step ==
    (/\ last'.op = "read_entries"
     /\ Undecryptable # {}
     /\ Cardinality(Undecryptable) < Len(LogLines))
        => /\ last'.ret = "entries"
           /\ last'.entries = PlainFrom(1)
           /\ Len(last'.entries) = Len(LogLines) - Cardinality(Undecryptable)
           /\ last'.failures = Cardinality(Undecryptable)
           /\ last'.events = <<"warn_partial", "return">>
           /\ dataFiles' = dataFiles /\ keyFiles' = keyFiles /\ backups' = backups

C5_PartialDecrypt == [][C5_Step]_vars

C5_Witness ==
    /\ last.op = "read_entries" /\ last.failures = 1 /\ Len(last.entries) = 1
    /\ Len(LogLines) = 2

(***************************************************************************)
(* C6.  On a log all of whose N > 0 lines fail to decrypt, read_entries    *)
(* runs the recovery protocol (the candidate keys are listed, then the     *)
(* key selection or the backup offer) before it reports anything, and if   *)
(* it returns it returns no entry; the protocol is not run when a line     *)
(* decrypts or the log has no lines.                                       *)
(***************************************************************************)
C6_Step ==
    last'.op = "read_entries" =>
        IF LogLines # <<>> /\ Cardinality(Undecryptable) = Len(LogLines)
        THEN /\ Len(last'.events) >= 2
             /\ last'.events[1] = "list_candidates"
             /\ last'.events[2] \in {"select_key", "offer_backup"}
             /\ last'.ret = "entries" => last'.entries = <<>>
             /\ last'.ret \in {"entries", "restart"}
        ELSE \A e \in {"list_candidates", "select_key", "offer_backup",
                       "swap_key", "backup", "restart"} : ~Occurs(e, last'.events)

C6_RecoveryOnlyWhenAllFail == [][C6_Step]_vars

\* all lines failed, the user cancelled the key selection, nothing was returned
C6_Witness ==
    /\ last.op = "read_entries" /\ last.ret = "entries" /\ last.entries = <<>>
    /\ last.events = <<"list_candidates", "select_key", "warn_all_failed", "return">>

(***************************************************************************)
(* C7.  When the user selects a recovery candidate, the file at the active *)
(* key location (the key path the CryptoManager resolved) is copied to its *)
(* sibling with the .previous suffix and then replaced by the candidate's  *)
(* content, so that after the restart the store loads the candidate's key, *)
(* wherever the key path resolved to.                                      *)
(***************************************************************************)
C7_SwapStep ==
    last'.restart
        => /\ keyFiles'[<<proc.key_dir, PreviousName>>]
                = AfterLoad(Here, proc.key_dir).kf[KeyPath]
           /\ keyFiles'[KeyPath] = hist'.swap.new

C7_AfterRestart ==
    (last.op = "start" /\ hist.swapped) => ActiveKey = hist.swap.new

C7_SwapReplacesActiveKey == [](C7_AfterRestart) /\ [][C7_SwapStep]_vars

(***************************************************************************)
(* C8.  The recovery protocol never deletes data: after any number of      *)
(* recovery runs the entry log is as it was, and every key that was the    *)
(* active key before a swap is still held by some file.                    *)
(***************************************************************************)
C8_SupersededKept ==
    \A k \in hist.superseded : \E p \in KeyPaths : keyFiles[p] = k

C8_LogKept == last'.op = "read_entries" => dataFiles' = dataFiles

C8_RecoveryNeverDeletes == [](C8_SupersededKept) /\ [][C8_LogKept]_vars

(***************************************************************************)
(* C9.  load_key on a key file whose content fails validation (wrong       *)
(* length, or not decodable to 32 bytes of key material) or that is        *)
(* missing raises nothing: it generates a key, overwrites the key file     *)
(* with it and returns it, so that every key load_key returns can be used  *)
(* by encrypt and decrypt.                                                 *)
(***************************************************************************)
FailsValidation(key) == ~key.exists \/ key.len # FernetKeyLen \/ ~key.fernet

C9_Step ==
    last'.op = "load_key"
        => /\ last'.key.len = FernetKeyLen /\ last'.key.fernet
           /\ FailsValidation(ActiveKey)
                => /\ last'.key = ValidKey(nextKeyId)
                   /\ keyFiles'[KeyPath] = last'.key

C9_LoadKeyRegenerates == [][C9_Step]_vars

(***************************************************************************)
(* C10.  Constructing the CryptoManager generates and persists a new key   *)
(* only when no file exists at the resolved key location; a key file that  *)
(* exists there keeps its content.                                         *)
(***************************************************************************)
C10_Step ==
    last'.op = "start"
        => LET found == CheckAndMigrateKey(keyFiles, env)
               path == <<proc'.key_dir, KeyName>>
           IN  IF found[path].exists
               THEN keyFiles' = found /\ nextKeyId' = nextKeyId
               ELSE /\ keyFiles' = [found EXCEPT ![path] = ValidKey(nextKeyId)]
                    /\ nextKeyId' = nextKeyId + 1

C10_EnsureKeyOnlyWhenAbsent == [][C10_Step]_vars

\* a key file Fernet rejects was there at the start, and is as it was
C10_Witness ==
    /\ last.op = "start" /\ ActiveKey = Bad44Key /\ nextKeyId = FirstKeyId

(***************************************************************************)
(* C2.  For every date, mood and non-blank body, the entry that            *)
(* read_entries yields after save_entry(body, mood, date) parses back,     *)
(* split on its first newline and its header on '|', to the date, the mood *)
(* and the body that were saved.                                           *)
(***************************************************************************)
LastRead == EntriesNow[Len(EntriesNow)]

ParsesBack ==
    /\ ParseDate(LastRead) = last.date
    /\ ParseMood(LastRead) = last.mood
    /\ ParseBody(LastRead) = last.text

Saved == last.op = "save_entry" /\ last.ret = "True"

Holds(s, c) == \E i \in 1..Len(s) : s[i] = c

HoldsPrefix(s) ==
    \E i \in 1..Len(s) :
        /\ i + 12 <= Len(s)
        /\ SubSeq(s, i, i + 12)
             = <<"-", "-", "-", " ", "E", "n", "t", "r", "y", " ", "o", "n", " ">>

PlainDate(d) ==
    /\ d # <<>>
    /\ ~Holds(d, "|") /\ ~Holds(d, "\n") /\ ~HoldsPrefix(d)
    /\ d[1] \notin {" ", "\n", "\t"} /\ d[Len(d)] \notin {" ", "\n", "\t"}

PlainMood(m) == ~Holds(m, "|") /\ ~Holds(m, "\n")

KeyAsGenerated(given) ==
    /\ given.origin = "made"
    /\ \E n \in 1..MaxKeys + 1 : given.key = ValidKey(n)
    /\ keyFiles[KeyPath] = given.key

C11_Step ==
    (last'.op = "decrypt" /\ KeyAsGenerated(last'.given))
        => /\ last'.out.kind = "text"
           /\ last'.out.text = last'.given.plain
           /\ keyFiles' = keyFiles

C11_TokenDiffers ==
    \A t \in tokens : TokenText(t.tok) # t.plain

DecryptionFailed == "InvalidToken"

NotOfThisKey(given) ==
    \/ given.origin \in {"altered", "foreign", "malformed"}
    \/ given.origin = "made" /\ given.key # last.key

C12_DecryptFailsDistinctly ==
    (last.op = "decrypt" /\ NotOfThisKey(last.given))
        => last.out.kind = "error" /\ last.out.error = DecryptionFailed

(***************************************************************************)
(* C13.  In the Set state, after any sequence of successful                *)
(* set_initial_password and reset_password calls with an unchanged key,    *)
(* authenticate returns True exactly when the text entered equals the      *)
(* candidate of the most recent successful set or reset, False on any      *)
(* other input and on cancel, and it leaves the password file and the      *)
(* key file unchanged.                                                     *)
(***************************************************************************)
\* the run is about to authenticate
Authenticating == proc.running /\ app.pc = "window"

\* a password was set or reset, its file is there and the key file is the
\* one it was saved under
SetUnchanged ==
    /\ app.known
    /\ passwordFiles[PasswordPath(proc.key_dir)].exists
    /\ keyFiles[KeyPath] = app.key

C13_Step ==
    (Authenticating /\ last'.op = "authenticate" /\ SetUnchanged)
        => /\ last'.ret \in {"True", "False"}
           /\ (last'.ret = "True") <=> (last'.text = app.password)
           /\ passwordFiles' = passwordFiles
           /\ keyFiles' = keyFiles

C13_AuthenticateMatchesLastSet == [][C13_Step]_vars

\* a later run let in with the password the last set or reset left
C13_Witness ==
    /\ last.op = "authenticate" /\ ~last.setup /\ last.ret = "True"
    /\ proc.runs = 2 /\ app.known /\ app.password = <<"q">>
    /\ last.text = <<"q">>

(***************************************************************************)
(* C14.  set_initial_password writes the password file only for a          *)
(* non-empty candidate whose confirmation equals it; every rejected        *)
(* candidate (empty, or confirmation mismatch) consumes one of 3           *)
(* attempts, and after 3 rejected candidates, or on cancel, the flow ends  *)
(* returning False with no password file written.                          *)
(***************************************************************************)
CandidateCancelled(a) == a[1] = Cancel
CandidateAccepted(a) == a[1] # Cancel /\ a[1] # <<>> /\ a[2] = a[1]
CandidateRejected(a) == ~CandidateCancelled(a) /\ ~CandidateAccepted(a)

\* the first round from i on whose candidate is not rejected, 4 if none is
RECURSIVE EndingRound(_, _)
EndingRound(answers, i) ==
    IF i > 3 THEN 4
    ELSE IF CandidateRejected(answers[i]) THEN EndingRound(answers, i + 1)
    ELSE i

C14_Step ==
    (Authenticating /\ last'.op = "authenticate" /\ last'.setup)
        => LET answers == last'.answers
               k == EndingRound(answers, 1)
               file == passwordFiles'[PasswordPath(proc.key_dir)]
           IN  /\ last'.attempts = k - 1
               /\ file.exists
                    => /\ k <= 3 /\ CandidateAccepted(answers[k])
                       /\ ~file.empty /\ file.tok.p = answers[k][1]
                       /\ Decrypts(keyFiles'[KeyPath], file.tok)
               /\ (k > 3 \/ CandidateCancelled(answers[k]))
                    => /\ last'.ret = "False"
                       /\ passwordFiles' = passwordFiles

C14_SetInitialPassword == [][C14_Step]_vars

\* an empty candidate and a mismatch used two attempts, the third round set it
C14_Witness ==
    /\ last.op = "authenticate" /\ last.setup /\ last.ret = "True"
    /\ last.attempts = 2
    /\ last.answers[1][1] = <<>> /\ last.answers[2][1] # last.answers[2][2]
    /\ passwordFiles[PasswordPath(proc.key_dir)].exists

(***************************************************************************)
(* C15.  reset_password replaces the stored password with the candidate,   *)
(* without asking for the old one, exactly when the candidate is           *)
(* non-empty and the confirmation equals it; on cancel, empty candidate    *)
(* or mismatch it returns False and the stored password is unchanged; the  *)
(* stored password is never empty.                                         *)
(***************************************************************************)
C15_Step ==
    (InSession /\ last'.op = "reset_password")
        => LET file == passwordFiles'[PasswordPath(proc.key_dir)]
           IN  IF last'.text \notin {Cancel, <<>>} /\ last'.confirmation = last'.text
               THEN /\ last'.ret = "True"
                    /\ file.exists /\ ~file.empty
                    /\ Decrypts(keyFiles'[KeyPath], file.tok)
                    /\ file.tok.p = last'.text
                    /\ last'.events = <<"password_reset">>
               ELSE /\ last'.ret = "False"
                    /\ passwordFiles' = passwordFiles

\* a password file the key of its directory decrypts holds a non-empty password
C15_NeverEmpty ==
    \A d \in Dirs :
        LET file == passwordFiles[PasswordPath(d)]
        IN  (file.exists /\ ~file.empty /\ Decrypts(keyFiles[<<d, KeyName>>], file.tok))
                => file.tok.p # <<>>

C15_ResetPassword == [](C15_NeverEmpty) /\ [][C15_Step]_vars

\* the password "p" of an earlier run replaced by "q"
C15_Witness ==
    /\ last.op = "reset_password" /\ last.ret = "True" /\ last.text = <<"q">>
    /\ passwordFiles[PasswordPath(proc.key_dir)].tok.p = <<"q">>
    /\ ~app.known \/ app.password = <<"q">>
    /\ proc.runs = 2

(***************************************************************************)
(* C16.  When the password file exists but cannot be decrypted with the    *)
(* current key, load_password fails with the error of a corrupted          *)
(* password and authenticate returns False; neither rewrites, resets or    *)
(* deletes the password file.                                              *)
(***************************************************************************)
\* the error load_password raises for a password file it cannot use
PasswordCorrupted == "ValueError"

Corrupted ==
    LET file == passwordFiles[PasswordPath(proc.key_dir)]
    IN  file.exists /\ (file.empty \/ ~Decrypts(keyFiles[KeyPath], file.tok))

C16_Step ==
    (Authenticating /\ last'.op = "authenticate" /\ Corrupted)
        => /\ last'.ret = "False"
           /\ passwordFiles' = passwordFiles
           /\ last'.text # Cancel
                => last'.out.kind = "error" /\ last'.out.error = PasswordCorrupted

ResetOffered == InSession

C17_CorruptedOffersReset ==
    (last.op = "authenticate" /\ last.out.kind = "error"
        /\ last.out.error = PasswordCorrupted)
        => ResetOffered

(***************************************************************************)
(* C18.  The session (window, menu, tabs) is entered only after            *)
(* authenticate returned True in this run; when the initial setup is       *)
(* cancelled or abandoned after 3 attempts, or the password entered does   *)
(* not match, the process exits without entering it.                       *)
(***************************************************************************)
C18_SessionAuthenticated == InSession => app.authenticated

C18_Step ==
    (Authenticating /\ last'.op = "authenticate" /\ last'.ret # "True")
        => ~proc'.running /\ app'.pc = "off"

C18_SessionOnlyAfterAuthentication ==
    [](C18_SessionAuthenticated) /\ [][C18_Step]_vars

\* the setup abandoned after three rejected candidates: the process is gone
C18_Witness ==
    /\ last.op = "authenticate" /\ last.setup /\ last.attempts = 3
    /\ last.ret = "False" /\ ~proc.running /\ app.pc = "off"

(***************************************************************************)
(* C19.  In every run, no entry operation of the store (save_entry,        *)
(* read_entries, delete_entry, delete_entries_by_date, rewrite_entries,    *)
(* export_entries) is executed before authenticate has returned True.      *)
(***************************************************************************)
C19_NoEntryOperationBeforeAuthentication == app.early = {}

(***************************************************************************)
(* C20.  Migration is idempotent: when the encrypted store file exists,    *)
(* constructing EntryStorage performs no migration action (no prompt, no   *)
(* save_entry, no rename).                                                 *)
(***************************************************************************)
C20_Step ==
    (proc.running /\ app.pc = "storage" /\ last'.op = "EntryStorage"
        /\ dataFiles[proc.key_dir].exists)
        => /\ last'.events = <<>>
           /\ dataFiles' = dataFiles
           /\ legacy' = legacy
           /\ keyFiles' = keyFiles
           /\ app'.early = {}

C20_MigrationIdempotent == [][C20_Step]_vars

\* the old diary is still there beside the store, and nothing was asked
C20_Witness ==
    /\ last.op = "EntryStorage" /\ last.events = <<>>
    /\ legacy.entries.exists /\ dataFiles[proc.key_dir].exists

(***************************************************************************)
(* C29.  delete_entry and delete_entries_by_date never remove log lines    *)
(* that could not be decrypted: every line that fails to decrypt under     *)
(* the current key before the call is still in the log after the call.     *)
(***************************************************************************)
C29_Step ==
    (last'.op \in {"delete_entry", "delete_entries_by_date"} /\ ~last'.restart)
        => \A i \in Undecryptable :
              \E j \in 1..Len(LogLines') : LogLines'[j] = LogLines[i]

C29_DeleteKeepsUndecryptableLines == [][C29_Step]_vars

(***************************************************************************)
(* C24.  Key material is loaded once at process start and held for the     *)
(* process lifetime: within one process every encrypt and decrypt uses     *)
(* the same key, and a change of the key file's content during the         *)
(* process does not change the key later operations use.                   *)
(***************************************************************************)
\* decrypt of a token this process made uses the key encrypt made it with
C24_Step ==
    (last'.op = "decrypt" /\ last'.given.origin = "made")
        => last'.key = last'.given.key

C24_OneKeyPerProcess == [][C24_Step]_vars

(***************************************************************************)
(* C23.  When rewrite_entries, called directly or by delete_entry or       *)
(* delete_entries_by_date, fails with a storage write error at any step,   *)
(* the entries that were readable from the log before the call are still   *)
(* readable afterwards.                                                    *)
(***************************************************************************)
C23_Step ==
    (last'.op \in {"rewrite_entries", "delete_entry"} /\ last'.ret = "StorageError")
        => LET before == EntriesOf(Here, proc.key_dir)
               after == EntriesOf(Here', proc.key_dir)
           IN  \A i \in 1..Len(before) : \E j \in 1..Len(after) : after[j] = before[i]

C23_FailedRewriteKeepsEntries == [][C23_Step]_vars

(***************************************************************************)
(* C25.  An entry whose first line does not match the header pattern       *)
(* "--- Entry on <date> | Mood: <mood> ---" at all is returned by          *)
(* read_entries but appears under no key of organize_entries_by_date.      *)
(***************************************************************************)
MatchesHeaderPattern(entry) ==
    LET header == SplitFirst(entry, "\n")
    IN  /\ StartsWithAt(header, HeaderPrefix, 1)
        /\ Contains(header, <<" ", "|">> \o MoodPrefix)
        /\ EndsWith(header, HeaderSuffix)

C25_UngroupableEntriesExcluded ==
    last.op = "organize_entries_by_date"
        => LET groups == GroupsOf(Here, proc.key_dir)
           IN  \A i \in 1..Len(last.entries) :
                  ~MatchesHeaderPattern(last.entries[i])
                      => \A d \in DOMAIN groups :
                            \A j \in 1..Len(groups[d]) : groups[d][j] # last.entries[i]

(***************************************************************************)
(* C21.  After an accepted migration that completes without error, the     *)
(* new store holds one entry per legacy entry, in legacy order, each with  *)
(* the legacy entry's date, its content and the default neutral mood; the  *)
(* legacy file no longer exists under its original name and its original   *)
(* content is preserved under the .bak name.                               *)
(*                                                                         *)
(* The legacy entries are told from the text of the file here without the  *)
(* loop of the migration: every piece of the text that begins with the     *)
(* header marker, its date what stands between the marker and " ---".      *)
(* As stated the claim fails for a legacy entry whose content is blank,    *)
(* which save_entry refuses, and for one whose header holds no date, which *)
(* save_entry dates today.  What holds is the statement over the legacy    *)
(* entries with a content that is not blank, an empty date read as today.  *)
(***************************************************************************)
RECURSIVE LegacyEntriesFrom(_, _)
LegacyEntriesFrom(parts, i) ==
    IF i > Len(parts) THEN <<>>
    ELSE (IF i > 1 THEN <<HeaderPrefix \o parts[i]>>
          ELSE IF StartsWithAt(parts[1], HeaderPrefix, 1) THEN <<parts[1]>>
          ELSE <<>>) \o LegacyEntriesFrom(parts, i + 1)

LegacyEntries(text) == LegacyEntriesFrom(Split(text, LegacyDelimiter), 1)

HeaderDate(entry) ==
    LET header == SplitFirst(entry, "\n")
    IN  SubSeq(header, Len(HeaderPrefix) + 1, Len(header) - Len(HeaderSuffix))

RECURSIVE WithContent(_)
WithContent(entries) ==
    IF entries = <<>> THEN <<>>
    ELSE (IF IsBlank(AfterFirst(Head(entries), "\n")) THEN <<>> ELSE <<Head(entries)>>)
            \o WithContent(Tail(entries))

MigrationSucceeded ==
    last'.op = "EntryStorage" /\ Occurs("migration_successful", last'.events)

LegacyFileKept == ~legacy'.entries.exists /\ legacy'.bak = legacy.entries

C21_Step ==
    MigrationSucceeded
        => LET old == WithContent(LegacyEntries(legacy.entries.text))
               new == EntriesOf(Here', proc.key_dir)
           IN  /\ Len(new) = Len(old)
               /\ \A i \in 1..Len(old) :
                     /\ ParseDate(new[i]) = EffectiveDate(HeaderDate(old[i]))
                     /\ ParseBody(new[i]) = AfterFirst(old[i], "\n")
                     /\ ParseMood(new[i]) = NeutralMood
               /\ LegacyFileKept

C21_AsStated_Step ==
    MigrationSucceeded
        => LET old == LegacyEntries(legacy.entries.text)
               new == EntriesOf(Here', proc.key_dir)
           IN  /\ Len(new) = Len(old)
               /\ \A i \in 1..Len(old) :
                     /\ ParseDate(new[i]) = HeaderDate(old[i])
                     /\ ParseBody(new[i]) = AfterFirst(old[i], "\n")
                     /\ ParseMood(new[i]) = NeutralMood
               /\ LegacyFileKept

MigrationFailedHalfway ==
    /\ last'.op = "EntryStorage" /\ Occurs("migration_error", last'.events)
    /\ LogLines' # <<>>

C22_Step ==
    MigrationFailedHalfway
        => /\ proc'.running /\ app'.pc = "window"
           /\ legacy' = legacy
           /\ MigrationDue(legacy', dataFiles', proc.key_dir)

C22_FailedMigrationCanBeRetried == [][C22_Step]_vars

(***************************************************************************)
(* C30.  After the recovery protocol replaced the active key with a chosen *)
(* candidate and the application restarts, the stored password is still    *)
(* decryptable with the active key: the key swap never turns a password    *)
(* that decrypted into one that does not.                                  *)
(***************************************************************************)
C30_Step ==
    LET file == passwordFiles[PasswordPath(proc.key_dir)]
    IN  (/\ last'.op = "read_entries" /\ last'.restart
         /\ file.exists /\ ~file.empty
         /\ Decrypts(keyFiles[KeyPath], file.tok))
            => /\ passwordFiles' = passwordFiles
               /\ Decrypts(keyFiles'[KeyPath], file.tok)

C30_SwapKeepsPasswordDecryptable == [][C30_Step]_vars

(***************************************************************************)
(* C26.  The key path resolved by CryptoManager._resolve_path is an        *)
(* absolute path for every requested file name, absolute or relative,      *)
(* whichever of the candidate locations exist.                             *)
(***************************************************************************)
C26_ResolvedPathIsAbsolute == last.op = "resolve_path" => last.resolved.abs

\* the path resolved for a relative name where the home directory and
\* APPDATA are absolute paths
C26_AbsoluteInAbsoluteHome ==
    (/\ last.op = "resolve_path" /\ last.key_path # "drive"
     /\ last.home = "absolute" /\ last.appdata # "relative")
        => last.resolved.abs

(***************************************************************************)
(* C27.  On platforms with permission bits, after every operation that     *)
(* writes a secret-bearing file (generate_key the key file, save_password  *)
(* the password file, save_entry and rewrite_entries the entry log) has    *)
(* completed, that file has owner-only read/write mode, unless setting     *)
(* the mode itself failed.                                                 *)
(***************************************************************************)
WrittenMode ==
    CASE last.op = "generate_key" -> modes.key
      [] last.op = "save_password" -> modes.password
      [] OTHER -> modes.log

C27_WrittenFileOwnerOnly ==
    (/\ ~modes.nt
     /\ \/ last.op = "generate_key"
        \/ last.op = "save_password" /\ last.ret = "None"
        \/ last.op \in {"save_entry", "rewrite_entries"} /\ last.ret = "True"
     /\ ~last.chmod_failed)
        => WrittenMode = OwnerOnly

\* the same of the three operations that call os.chmod
C27_ChmodCallersOwnerOnly ==
    (/\ ~modes.nt
     /\ \/ last.op = "generate_key"
        \/ last.op = "save_password" /\ last.ret = "None"
        \/ last.op = "save_entry" /\ last.ret = "True"
     /\ ~last.chmod_failed)
        => WrittenMode = OwnerOnly

(***************************************************************************)
(* C28.  With two processes on the same entry log and no locking, there is *)
(* an interleaving in which one process's save_entry append lands between  *)
(* the other process's read_entries and rewrite_entries inside             *)
(* delete_entry (or delete_entries_by_date), and the appended entry is     *)
(* then missing from the log although its save_entry returned True.        *)
(*                                                                         *)
(* The interleaving is the witness; what is checked of every such          *)
(* interleaving is that the entries appended in between were in the log    *)
(* before the rewrite and that the log holds after it the filtered list of *)
(* the delete and nothing else.                                            *)
(***************************************************************************)
C28_Step ==
    (deleting.active /\ ~deleting'.active /\ deleting.appended # <<>>)
        => /\ EntriesOf(Here, proc.key_dir) = deleting.entries \o deleting.appended
           /\ last'.ret = "True"
           /\ EntriesOf(Here', proc.key_dir) =
                 IF deleting.op = "delete_entry"
                 THEN WithoutEntry(deleting.entries, deleting.target)
                 ELSE WithoutDate(deleting.entries, deleting.target)

C28_AppendBetweenReadAndRewriteIsLost == [][C28_Step]_vars

\* delete_entry(EntryA) read a log holding EntryA, the other process saved
\* EntryB and was told True, and the rewrite left an empty log
C28_Witness ==
    /\ last.op = "delete_entry" /\ last.ret = "True"
    /\ ~deleting.active
    /\ deleting.entries = <<EntryA>> /\ deleting.target = EntryA
    /\ deleting.appended = <<EntryB>>
    /\ LogLines = <<>>

====
